---------------------------- MODULE Spec2Model ----------------------------
(***************************************************************************)
(* DoorBell-NodeMCU32: the two firmware variants of the doorbell.          *)
(*                                                                         *)
(*   dev  - the globals of the timer/analog firmware (src/unnamed/part_001)*)
(*   emg  - the globals of the emergency/panic firmware                    *)
(*          (src/unnamed/part_002)                                         *)
(*                                                                         *)
(* Each firmware is a single cooperative loop().  One loop() iteration is  *)
(* one step of the model; the MQTT callback runs inside it, at mqtt.loop().*)
(* Times are milliseconds of millis().                                      *)
(* Voltages are millivolts computed from the 12-bit ADC count.             *)
(***************************************************************************)
EXTENDS Integers, Sequences, FiniteSets, TLC

\* ------------------------------------------------------------------------
\* Program constants
\* ------------------------------------------------------------------------

\* a variant of MIN_SESSION_DURATION: half the time
HalfSessionDuration == 200 \div 2

\* src/src/input_config.h
MIN_SESSION_DURATION == 200
ADC_THRESHOLD == 3000
ADC_HYSTERESIS == 300
ADC_SAMPLE_INTERVAL == 5
MAX_SESSION_SAMPLES == 1000
ADC_DROPOUT_TOLERANCE == 15

\* pins (both variants)
BUTTON_DOWNSTAIRS == 27
BUTTON_DOOR == 14

\* delay(500) after a play command, delay(5000) in reconnect(), the 10 s
\* task watchdog, the 200 ms hold of isValidButtonPress, the 200 ms
\* cadence of the BUSY-pin check
PLAY_DELAY == 500
RECONNECT_DELAY == 5000
WDT_TIMEOUT == 10000
VALID_HOLD == 200
PLAYBACK_CHECK_INTERVAL == 200

\* ADC full scale: 12 bits, 3300 mV
ADC_MAX == 4095
ADC_REF_MV == 3300

\* ------------------------------------------------------------------------
\* Bounds of the model
\* ------------------------------------------------------------------------

\* loop() iterations explored by SpecADC
MaxIter == 8

\* milliseconds of the scenario stream followed by SpecScenario
MaxScenarioMs == 800

\* ------------------------------------------------------------------------
\* Arithmetic helpers
\* ------------------------------------------------------------------------

\* a - b on unsigned long (32 bits).  Every time of the model stays below
\* 2^31, so a - b wraps exactly when a < b, and then to 2^32 - (b - a), a
\* value above 2^31: larger than every duration the firmware compares it
\* with.  TLC's integers end at 2^31 - 1, which stands for it.
USub(a, b) == IF a >= b THEN a - b ELSE 2147483647

Max(a, b) == IF a >= b THEN a ELSE b

\* voltage = (adc_value * 3.3) / 4095.0, here in millivolts
Voltage(raw) == (raw * ADC_REF_MV) \div ADC_MAX

\* a variant of percentToVolume that rounds to the nearest native step
percentToVolumeRounded(percent) == (((percent % 256) * 30 + 50) \div 100) % 256

\* uint8_t percentToVolume(uint8_t percent): the argument is converted to
\* uint8_t, the product is an int, the quotient is converted to uint8_t
percentToVolume(percent) == (((percent % 256) * 30) \div 100) % 256

\* ------------------------------------------------------------------------
\* State
\* ------------------------------------------------------------------------

VARIABLES
    dev,      \* timer/analog firmware: globals, clock and outputs of the last iteration
    obs,      \* timer/analog firmware: what the last ADC sample did (observer)
    tally,    \* timer/analog firmware: sessions started and ended so far (observer)
    emg,      \* emergency/panic firmware: globals, clock and outputs
    net,      \* broker reachability, position in loop()/reconnect(), watchdog
    iter      \* loop() iterations since Init

vars == <<dev, obs, tally, emg, net, iter>>

\* Config after loadConfig() found no validity marker (defaults); of the
\* credential strings only wifi_ssid is kept
DefaultConfig ==
    [downstairs_track |-> 1, door_track |-> 2,
     downstairs_volume |-> 50, door_volume |-> 50,
     button_cooldown_ms |-> 15000, volume_reset_ms |-> 60000,
     debug_enabled |-> FALSE,
     wifi_ssid |-> "WIFI_SSID"]

\* the Config bytes of an EEPROM that clearEEPROM() has filled with zeros
ZeroConfig ==
    [downstairs_track |-> 0, door_track |-> 0,
     downstairs_volume |-> 0, door_volume |-> 0,
     button_cooldown_ms |-> 0, volume_reset_ms |-> 0,
     debug_enabled |-> FALSE,
     wifi_ssid |-> ""]

InitButtonState ==
    [isPressed |-> FALSE, wasPressed |-> FALSE, pressStartTime |-> 0,
     lastValidPressTime |-> 0, isValidPress |-> FALSE]

InitSession ==
    [startTime |-> 0, endTime |-> 0, isActive |-> FALSE, maxVoltage |-> 0,
     buttonDetected |-> -1, numReadings |-> 0]

\* The globals of part_001 as zero-initialised by the C++ runtime, with the
\* clock at t0 and the configuration cfg
InitDev(t0, cfg) ==
    [now |-> t0,
     currentTime |-> 0,
     lastPlayTime |-> 0,
     volumeResetTimer |-> 0,
     lastPlaybackCheck |-> 0,
     lastAdcRead |-> 0,
     isPlaying |-> FALSE,
     playRequest |-> [pending |-> FALSE, track |-> 0, volume |-> 0],
     timer |-> [active |-> FALSE, startTime |-> 0, durationMs |-> 0,
                track |-> 0, volume |-> 0],
     currentSession |-> InitSession,
     lastValidVoltage |-> 0,
     buttonStates |-> [i \in {0, 1} |-> InitButtonState],
     config |-> cfg,
     eeprom |-> [valid |-> TRUE, config |-> cfg],
     boots |-> 0,       \* ESP.restart() calls so far
     pub |-> <<>>,      \* mqtt.publish calls of the last iteration
     df |-> <<>>,       \* dfPlayer calls of the last iteration
     dbg |-> <<>>]      \* DEBUG_PRINT / MQTT_DEBUG points passed in the last iteration

NoSession == [startTime |-> 0, endTime |-> 0, button |-> -1, attributed |-> -1,
              emitted |-> FALSE, played |-> FALSE]

InitObs ==
    [sampled |-> FALSE,     \* the last iteration took an ADC sample
     v1 |-> 0, v2 |-> 0,    \* the two voltages of that sample (mV)
     wasActive |-> FALSE,   \* a session was active before that sample
     lastHigh |-> -1,       \* time of the session's last sample at or above threshold
     lastNotLow |-> -1,     \* time of the session's last sample not below threshold - hysteresis
     lowSince |-> -1,       \* time of the first sample of the session's current low run
     attributed |-> -1,     \* buttonDetected as stored when the session started
     ended |-> NoSession]   \* the session the last sample ended, if it ended one

InitTally == [onset |-> 0, nStarted |-> 0, nEnded |-> 0, first |-> NoSession, last |-> NoSession]

\* ------------------------------------------------------------------------
\* Timer/analog firmware (src/unnamed/part_001)
\* ------------------------------------------------------------------------

Publish(s, topic, text, args) ==
    [s EXCEPT !.pub = Append(@, [topic |-> topic, text |-> text, args |-> args])]

Player(s, op, arg) ==
    [s EXCEPT !.df = Append(@, [op |-> op, arg |-> arg, playing |-> s.isPlaying])]

Debug(s, what) == [s EXCEPT !.dbg = Append(@, what)]

\* a variant of handleNormalDoorbell that refuses a press only during playback
handleNormalDoorbellNoCooldown(s, buttonIndex) ==
    IF s.isPlaying
    THEN s
    ELSE LET track == IF buttonIndex = 0 THEN s.config.downstairs_track
                      ELSE s.config.door_track
             vol == IF buttonIndex = 0 THEN s.config.downstairs_volume
                    ELSE s.config.door_volume
             s1 == Player(s, "volume", percentToVolume(vol))
             s2 == Player(s1, "play", track)
             s3 == Publish(s2, "doorbell/event", "button_press",
                           <<buttonIndex, track, vol>>)
         IN [s3 EXCEPT !.now = @ + PLAY_DELAY,
                       !.lastPlayTime = s.currentTime,
                       !.volumeResetTimer = s.currentTime,
                       !.isPlaying = TRUE]

\* void handleNormalDoorbell(int buttonIndex)
handleNormalDoorbell(s, buttonIndex) ==
    IF s.isPlaying
       \/ USub(s.currentTime, s.lastPlayTime) < s.config.button_cooldown_ms
    THEN s
    ELSE LET track == IF buttonIndex = 0 THEN s.config.downstairs_track
                      ELSE s.config.door_track
             vol == IF buttonIndex = 0 THEN s.config.downstairs_volume
                    ELSE s.config.door_volume
             s1 == Player(s, "volume", percentToVolume(vol))
             s2 == Player(s1, "play", track)
             s3 == Publish(s2, "doorbell/event", "button_press",
                           <<buttonIndex, track, vol>>)
         IN [s3 EXCEPT !.now = @ + PLAY_DELAY,
                       !.lastPlayTime = s.currentTime,
                       !.volumeResetTimer = s.currentTime,
                       !.isPlaying = TRUE]

\* void handleSimulatedButton(int button)
handleSimulatedButton(s, button) ==
    handleNormalDoorbell(s, IF button = BUTTON_DOOR THEN 1 ELSE 0)

\* void analyzeSession(ADCSession& session), on currentSession
analyzeSession(s) ==
    LET session == s.currentSession
        sessionDuration == USub(session.endTime, session.startTime)
    IN IF session.numReadings = 0 THEN Debug(s, "no_readings")
       ELSE IF sessionDuration < MIN_SESSION_DURATION THEN Debug(s, "too_short")
       ELSE IF session.buttonDetected = 1
            THEN handleSimulatedButton(Debug(s, "trigger_door"), BUTTON_DOOR)
       ELSE IF session.buttonDetected = 0
            THEN handleSimulatedButton(Debug(s, "trigger_downstairs"), BUTTON_DOWNSTAIRS)
       ELSE Debug(s, "no_button")

\* a variant of ResetSession that keeps the attribution
ResetSessionKeepsButton(s) ==
    [s EXCEPT !.currentSession.isActive = FALSE,
              !.currentSession.maxVoltage = 0,
              !.currentSession.numReadings = 0]

\* checkADC: "Reset session"
ResetSession(s) ==
    [s EXCEPT !.currentSession.isActive = FALSE,
              !.currentSession.maxVoltage = 0,
              !.currentSession.buttonDetected = -1,
              !.currentSession.numReadings = 0]

\* a variant of StartSession that looks at the first line before the second
StartSessionFirstLineFirst(s, voltage1, voltage2) ==
    [s EXCEPT !.currentSession.startTime = s.currentTime,
              !.currentSession.isActive = TRUE,
              !.currentSession.maxVoltage = Max(voltage1, voltage2),
              !.currentSession.numReadings = 0,
              !.currentSession.buttonDetected =
                  IF voltage1 >= ADC_THRESHOLD THEN 0
                  ELSE IF voltage2 >= ADC_THRESHOLD THEN 1
                  ELSE @,
              !.dbg = Append(@, "session_start")]

\* checkADC: the start of a new session, with the channel attribution
StartSession(s, voltage1, voltage2) ==
    [s EXCEPT !.currentSession.startTime = s.currentTime,
              !.currentSession.isActive = TRUE,
              !.currentSession.maxVoltage = Max(voltage1, voltage2),
              !.currentSession.numReadings = 0,
              !.currentSession.buttonDetected =
                  IF voltage2 >= ADC_THRESHOLD THEN 1
                  ELSE IF voltage1 >= ADC_THRESHOLD THEN 0
                  ELSE @,
              !.dbg = Append(@, "session_start")]

\* a variant of StoreReading that attributes the session anew on each sample
StoreReadingReattributing(s, voltage1, voltage2) ==
    [s EXCEPT !.currentSession.maxVoltage = Max(@, Max(voltage1, voltage2)),
              !.currentSession.numReadings = @ + 1,
              !.currentSession.buttonDetected =
                  IF voltage2 >= ADC_THRESHOLD THEN 1
                  ELSE IF voltage1 >= ADC_THRESHOLD THEN 0
                  ELSE @]

\* checkADC: the reading stored for one sample of an active session
StoreReading(s, voltage1, voltage2) ==
    [s EXCEPT !.currentSession.maxVoltage = Max(@, Max(voltage1, voltage2)),
              !.currentSession.numReadings = @ + 1]

\* a variant of WithinDropoutTolerance with < in place of <=
WithinDropoutToleranceStrict(s) ==
    USub(s.currentTime, s.lastValidVoltage) < ADC_DROPOUT_TOLERANCE

\* checkADC: "Check if this is just a temporary dropout"
WithinDropoutTolerance(s) ==
    USub(s.currentTime, s.lastValidVoltage) <= ADC_DROPOUT_TOLERANCE

\* a variant of MinDurationReached with > in place of >=
MinDurationReachedStrict(s) ==
    USub(s.currentTime, s.currentSession.startTime) > MIN_SESSION_DURATION

\* checkADC: "Session has met minimum duration"
MinDurationReached(s) ==
    USub(s.currentTime, s.currentSession.startTime) >= MIN_SESSION_DURATION

\* checkADC: the end conditions, evaluated after the reading was stored
EndConditions(s, voltage1, voltage2) ==
    IF voltage1 < ADC_THRESHOLD - ADC_HYSTERESIS
       /\ voltage2 < ADC_THRESHOLD - ADC_HYSTERESIS
    THEN IF WithinDropoutTolerance(s)
         THEN Debug(s, "dropout_tolerated")
         ELSE LET s1 == [Debug(s, "session_end_dropout")
                           EXCEPT !.currentSession.endTime = s.currentTime]
                  s2 == IF USub(s1.currentSession.endTime, s1.currentSession.startTime)
                            >= MIN_SESSION_DURATION
                        THEN analyzeSession(s1)
                        ELSE Debug(s1, "ignored_short")
              IN ResetSession(s2)
    ELSE IF MinDurationReached(s)
    THEN LET s1 == [Debug(s, "session_end_duration")
                      EXCEPT !.currentSession.endTime = s.currentTime]
         IN ResetSession(analyzeSession(s1))
    ELSE IF voltage1 >= ADC_THRESHOLD \/ voltage2 >= ADC_THRESHOLD
         THEN [s EXCEPT !.lastValidVoltage = s.currentTime]
         ELSE s

\* a variant of SampleADC that starts a session during playback too
SampleADCWhilePlaying(s, voltage1, voltage2) ==
    LET s1 == IF (voltage1 >= ADC_THRESHOLD \/ voltage2 >= ADC_THRESHOLD)
                 /\ ~s.currentSession.isActive
              THEN StartSession(s, voltage1, voltage2)
              ELSE s
    IN IF ~s1.currentSession.isActive THEN s1
       ELSE IF s1.currentSession.numReadings >= MAX_SESSION_SAMPLES
            THEN [Debug(s1, "buffer_full") EXCEPT !.currentSession.isActive = FALSE]
       ELSE EndConditions(StoreReading(s1, voltage1, voltage2), voltage1, voltage2)

\* checkADC: one sample, taken at s.currentTime
SampleADC(s, voltage1, voltage2) ==
    LET s1 == IF (voltage1 >= ADC_THRESHOLD \/ voltage2 >= ADC_THRESHOLD)
                 /\ ~s.currentSession.isActive /\ ~s.isPlaying
              THEN StartSession(s, voltage1, voltage2)
              ELSE s
    IN IF ~s1.currentSession.isActive THEN s1
       ELSE IF s1.currentSession.numReadings >= MAX_SESSION_SAMPLES
            THEN [Debug(s1, "buffer_full") EXCEPT !.currentSession.isActive = FALSE]
       ELSE EndConditions(StoreReading(s1, voltage1, voltage2), voltage1, voltage2)

\* void checkADC(): adc1_value, adc2_value are what analogRead returns
checkADC(s, adc1_value, adc2_value) ==
    LET s1 == [s EXCEPT !.currentTime = s.now]
    IN IF USub(s1.currentTime, s1.lastAdcRead) >= ADC_SAMPLE_INTERVAL
       THEN SampleADC([Debug(s1, "sample") EXCEPT !.lastAdcRead = s1.currentTime],
                      Voltage(adc1_value), Voltage(adc2_value))
       ELSE s1

\* bool isValidButtonPress(ButtonState& state, unsigned long currentTime):
\* the state it leaves (its return value is state.isValidPress)
isValidButtonPress(state, currentTime) ==
    IF state.isPressed /\ ~state.wasPressed
    THEN [state EXCEPT !.pressStartTime = currentTime,
                       !.wasPressed = TRUE,
                       !.isValidPress = FALSE]
    ELSE IF state.isPressed /\ state.wasPressed
    THEN IF USub(currentTime, state.pressStartTime) >= VALID_HOLD
         THEN [state EXCEPT !.isValidPress = TRUE,
                            !.lastValidPressTime = currentTime]
         ELSE state
    ELSE IF ~state.isPressed /\ state.wasPressed
    THEN [state EXCEPT !.wasPressed = FALSE, !.isValidPress = FALSE]
    ELSE state

\* void checkButtons(): downstairsHigh / doorHigh are the two digitalRead
\* results; localTime is the value of the local "unsigned long currentTime =
\* currentTime;", which is initialised from itself and so is indeterminate
checkButtons(s, downstairsHigh, doorHigh, localTime) ==
    LET b0 == isValidButtonPress(
                  [s.buttonStates[0] EXCEPT !.isPressed = downstairsHigh], localTime)
        b1 == isValidButtonPress(
                  [s.buttonStates[1] EXCEPT !.isPressed = doorHigh], localTime)
    IN [s EXCEPT !.buttonStates = [i \in {0, 1} |-> IF i = 0 THEN b0 ELSE b1]]

\* a variant of TimerCheck that leaves a request that is already pending
TimerCheckKeepsPending(s) ==
    IF s.timer.active /\ USub(s.currentTime, s.timer.startTime) >= s.timer.durationMs
    THEN LET s1 == [s EXCEPT !.timer.active = FALSE,
                             !.playRequest =
                                 IF s.playRequest.pending THEN s.playRequest
                                 ELSE [pending |-> TRUE, track |-> s.timer.track,
                                       volume |-> s.timer.volume]]
         IN Debug(Publish(s1, "doorbell/timer/status", "ended",
                          <<s.timer.durationMs \div 1000, s.timer.track,
                            s.timer.volume>>),
                  "timer_ended")
    ELSE s

\* a variant of TimerCheck that lets the timer run one instant longer
TimerCheckLate(s) ==
    IF s.timer.active /\ USub(s.currentTime, s.timer.startTime) > s.timer.durationMs
    THEN LET s1 == [s EXCEPT !.timer.active = FALSE,
                             !.playRequest = [pending |-> TRUE,
                                              track |-> s.timer.track,
                                              volume |-> s.timer.volume]]
         IN Debug(Publish(s1, "doorbell/timer/status", "ended",
                          <<s.timer.durationMs \div 1000, s.timer.track,
                            s.timer.volume>>),
                  "timer_ended")
    ELSE s

\* loop(): "Check timer"
TimerCheck(s) ==
    IF s.timer.active /\ USub(s.currentTime, s.timer.startTime) >= s.timer.durationMs
    THEN LET s1 == [s EXCEPT !.timer.active = FALSE,
                             !.playRequest = [pending |-> TRUE,
                                              track |-> s.timer.track,
                                              volume |-> s.timer.volume]]
         IN Debug(Publish(s1, "doorbell/timer/status", "ended",
                          <<s.timer.durationMs \div 1000, s.timer.track,
                            s.timer.volume>>),
                  "timer_ended")
    ELSE s

\* loop(): "Check if playback has finished"; busyPin is digitalRead(DFPLAYER_BUSY)
PlaybackCheck(s, busyPin) ==
    IF USub(s.currentTime, s.lastPlaybackCheck) >= PLAYBACK_CHECK_INTERVAL
    THEN LET s1 == [s EXCEPT !.lastPlaybackCheck = s.currentTime]
         IN IF busyPin /\ s1.isPlaying
            THEN Player(Debug([s1 EXCEPT !.isPlaying = FALSE], "playback_finished"),
                        "volume", 0)
            ELSE s1
    ELSE s

\* a variant of PendingPlay that also serves the request during playback
\* once the button cooldown has passed
PendingPlayOrCooldown(s) ==
    IF s.playRequest.pending
       /\ (~s.isPlaying
           \/ USub(s.currentTime, s.lastPlayTime) >= s.config.button_cooldown_ms)
    THEN LET s1 == Player(s, "volume", percentToVolume(s.playRequest.volume))
             s2 == Player(s1, "play", s.playRequest.track)
         IN Debug([s2 EXCEPT !.now = @ + PLAY_DELAY,
                             !.lastPlayTime = s.currentTime,
                             !.volumeResetTimer = s.currentTime,
                             !.isPlaying = TRUE,
                             !.playRequest.pending = FALSE],
                  "playback_started")
    ELSE s

\* loop(): "Handle pending play requests"
PendingPlay(s) ==
    IF s.playRequest.pending /\ ~s.isPlaying
    THEN LET s1 == Player(s, "volume", percentToVolume(s.playRequest.volume))
             s2 == Player(s1, "play", s.playRequest.track)
         IN Debug([s2 EXCEPT !.now = @ + PLAY_DELAY,
                             !.lastPlayTime = s.currentTime,
                             !.volumeResetTimer = s.currentTime,
                             !.isPlaying = TRUE,
                             !.playRequest.pending = FALSE],
                  "playback_started")
    ELSE s

\* loop(): "Handle button actions"
ButtonActions(s) ==
    LET s1 == IF s.buttonStates[0].isValidPress THEN handleNormalDoorbell(s, 0) ELSE s
    IN IF s1.buttonStates[1].isValidPress THEN handleNormalDoorbell(s1, 1) ELSE s1

\* void saveConfig()
saveConfig(s) == [s EXCEPT !.eeprom = [valid |-> TRUE, config |-> s.config]]

\* doc["..."] converted to uint8_t: a value outside 0..255 reads as 0
JsonU8(v) == IF v \in 0..255 THEN v ELSE 0

\* A message on no topic: mqtt.loop() had nothing to deliver
NoMsg == [topic |-> "", text |-> "", json |-> FALSE, keys |-> {},
          seconds |-> 0, track |-> 0, volume |-> 0, debug |-> FALSE,
          ssid |-> "",
          queued |-> <<>>]  \* the messages received behind this one

\* callback(): "(unsigned long)seconds * 1000" of doorbell/timer/set, the
\* product kept to the 32 bits of unsigned long.  seconds is a positive int.
\* Up to 2147483 the product is exact; from 4294968 on it has wrapped past
\* 2^32 (4294967 * 1000 = 2^32 - 296).  Products from 2^31 to 2^32 - 1 exceed
\* the integers of the model and are stood for by 2147483647, which no
\* elapsed time of the model reaches.
DurationMs(seconds) ==
    IF seconds <= 2147483 THEN seconds * 1000
    ELSE IF seconds <= 4294967 THEN 2147483647
    ELSE IF seconds <= 4294967 + 2147483 THEN (seconds - 4294967) * 1000 - 296
    ELSE 2147483647

\* a variant of TimerSet that tests the duration before anything else
TimerSetDurationFirst(s, m) ==
    IF "seconds" \in m.keys /\ m.seconds <= 0
    THEN Publish(s, "doorbell/timer/status", "error:Invalid duration", <<>>)
    ELSE IF s.timer.active
    THEN Publish(s, "doorbell/timer/status", "error:Timer already active", <<>>)
    ELSE IF ~({"seconds", "track", "volume"} \subseteq m.keys)
    THEN Publish(s, "doorbell/timer/status", "error:Missing required fields", <<>>)
    ELSE LET s1 == [s EXCEPT !.timer = [active |-> TRUE,
                                        startTime |-> s.now,
                                        durationMs |-> DurationMs(m.seconds),
                                        track |-> m.track,
                                        volume |-> m.volume]]
         IN Publish(s1, "doorbell/timer/status", "started",
                    <<m.seconds, m.track, m.volume>>)

\* callback(): "doorbell/timer/set", after the payload parsed as JSON
TimerSet(s, m) ==
    IF s.timer.active
    THEN Publish(s, "doorbell/timer/status", "error:Timer already active", <<>>)
    ELSE IF ~({"seconds", "track", "volume"} \subseteq m.keys)
    THEN Publish(s, "doorbell/timer/status", "error:Missing required fields", <<>>)
    ELSE IF m.seconds <= 0
    THEN Publish(s, "doorbell/timer/status", "error:Invalid duration", <<>>)
    ELSE LET s1 == [s EXCEPT !.timer = [active |-> TRUE,
                                        startTime |-> s.now,
                                        durationMs |-> DurationMs(m.seconds),
                                        track |-> m.track,
                                        volume |-> m.volume]]
         IN Publish(s1, "doorbell/timer/status", "started",
                    <<m.seconds, m.track, m.volume>>)

\* a variant of TimerStop that reports 'stopped' and leaves the timer running
TimerStopKeepsActive(s) ==
    IF s.timer.active
    THEN Publish(s, "doorbell/timer/status", "stopped", <<>>)
    ELSE Publish(s, "doorbell/timer/status", "error:No active timer", <<>>)

\* a variant of TimerStop whose error path restarts the idle timer's clock
TimerStopTouchesTimer(s) ==
    IF s.timer.active
    THEN Publish([s EXCEPT !.timer.active = FALSE],
                 "doorbell/timer/status", "stopped", <<>>)
    ELSE Publish([s EXCEPT !.timer.startTime = s.now],
                 "doorbell/timer/status", "error:No active timer", <<>>)

\* callback(): "doorbell/timer/stop"
TimerStop(s) ==
    IF s.timer.active
    THEN Publish([s EXCEPT !.timer.active = FALSE],
                 "doorbell/timer/status", "stopped", <<>>)
    ELSE Publish(s, "doorbell/timer/status", "error:No active timer", <<>>)

\* a variant of SetButton that reads both fields whether present or not
SetButtonBothFields(s, m, which) ==
    LET trackField == IF which = 0 THEN "downstairs_track" ELSE "door_track"
        volField == IF which = 0 THEN "downstairs_volume" ELSE "door_volume"
        track == IF "track" \in m.keys THEN JsonU8(m.track) ELSE 0
        vol == IF "volume" \in m.keys THEN JsonU8(m.volume) ELSE 0
    IN saveConfig([s EXCEPT !.config[trackField] = track, !.config[volField] = vol])

\* a variant of SetButton that leaves the EEPROM alone
SetButtonUnsaved(s, m, which) ==
    LET trackField == IF which = 0 THEN "downstairs_track" ELSE "door_track"
        volField == IF which = 0 THEN "downstairs_volume" ELSE "door_volume"
        s1 == IF "track" \in m.keys
              THEN [s EXCEPT !.config[trackField] = JsonU8(m.track)] ELSE s
    IN IF "volume" \in m.keys
       THEN [s1 EXCEPT !.config[volField] = JsonU8(m.volume)] ELSE s1

\* callback(): "doorbell/set/button/downstairs" and ".../door"
SetButton(s, m, which) ==
    LET trackField == IF which = 0 THEN "downstairs_track" ELSE "door_track"
        volField == IF which = 0 THEN "downstairs_volume" ELSE "door_volume"
        s1 == IF "track" \in m.keys
              THEN [s EXCEPT !.config[trackField] = JsonU8(m.track)] ELSE s
        s2 == IF "volume" \in m.keys
              THEN [s1 EXCEPT !.config[volField] = JsonU8(m.volume)] ELSE s1
    IN saveConfig(s2)

\* doc["wifi_ssid"] converted to const char* when the JSON value is not a
\* string: a null pointer
NullPtr == "(null)"

\* callback(): "doorbell/set/config" (of the credentials, wifi_ssid).
\* strlcpy from a null pointer is a load from address 0: the ESP32 panics
\* and restarts before anything is saved.
SetConfig(s, m) ==
    IF "wifi_ssid" \in m.keys /\ m.ssid = NullPtr
    THEN Debug(s, "restart")
    ELSE LET s1 == IF "wifi_ssid" \in m.keys
                   THEN [s EXCEPT !.config.wifi_ssid = m.ssid] ELSE s
             s2 == IF "debug_enabled" \in m.keys
                   THEN [s1 EXCEPT !.config.debug_enabled = m.debug] ELSE s1
         IN saveConfig(s2)

\* MQTT_DEBUG(x), in a build with DEBUG_ENABLE: the text goes out on
\* doorbell/debug when config.debug_enabled is set, nowhere otherwise
MqttDebug(s, what) ==
    IF s.config.debug_enabled
    THEN Publish(Debug(s, what), "doorbell/debug", what, <<>>)
    ELSE Debug(s, what)

\* void publishConfig(): the configuration is serialised into a local
\* buffer; the only publication is the debug text
publishConfig(s) == MqttDebug(Debug(s, "publishConfig"), "Published config")

\* void publishDeviceStatus(), connected
publishDeviceStatus(s) ==
    MqttDebug(Publish(s, "doorbell/status", "online",
                      <<s.config.downstairs_track, s.config.door_track,
                        s.config.downstairs_volume, s.config.door_volume>>),
              "Published device status")

\* a variant of UnknownCommand that drops the request silently
UnknownCommandSilent(s) == s

\* callback(): the topic is in neither command list
UnknownCommand(s) == Publish(s, "doorbell/error", "Unknown command", <<>>)

\* callback(): deserializeJson reported an error
ParseFailure(s) == MqttDebug(s, "Failed to parse JSON")

JsonTopics == {"doorbell/set/button/downstairs", "doorbell/set/button/door",
               "doorbell/set/config", "doorbell/timer/set"}

\* void callback(char* topic, byte* payload, unsigned int length), entered
\* from mqtt.loop(), which hands over one received message per call.  The
\* reboot request calls mqtt.loop() itself before ESP.restart(): the message
\* received behind the request, if there is one, is handled there.  A
\* restart only marks the state, loop() below restarts the device; "callback"
\* and "callback_return" mark the entry and the return.
RECURSIVE callback(_, _)
callback(s0, m) ==
    LET s == Debug(s0, "callback")
        r ==
          IF m.topic = "doorbell/system/reboot"
          THEN IF m.text = "REBOOT"
               THEN Debug(IF m.queued = <<>> THEN s ELSE callback(s, Head(m.queued)),
                          "restart")
               ELSE s
          ELSE IF m.topic = "doorbell/play/"
          THEN IF m.track > 0
               THEN [s EXCEPT !.playRequest = [pending |-> TRUE, track |-> m.track,
                                               volume |-> 100]]
               ELSE s
          ELSE IF m.topic = "doorbell/simulate/door"
          THEN handleSimulatedButton(s, BUTTON_DOOR)
          ELSE IF m.topic = "doorbell/simulate/downstairs"
          THEN handleSimulatedButton(s, BUTTON_DOWNSTAIRS)
          ELSE IF m.topic = "doorbell/get/config"
          THEN publishConfig(MqttDebug(s, "Getting config"))
          ELSE IF m.topic = "doorbell/get/all"
          THEN publishDeviceStatus(publishConfig(MqttDebug(s, "Getting all settings")))
          ELSE IF m.topic = "doorbell/timer/stop"
          THEN TimerStop(s)
          ELSE IF m.topic \in JsonTopics
          THEN IF ~m.json THEN ParseFailure(s)
               ELSE IF m.topic = "doorbell/timer/set" THEN TimerSet(s, m)
               ELSE IF m.topic = "doorbell/set/button/downstairs" THEN SetButton(s, m, 0)
               ELSE IF m.topic = "doorbell/set/button/door" THEN SetButton(s, m, 1)
               ELSE SetConfig(s, m)
          ELSE UnknownCommand(s)
    IN IF \E i \in 1..Len(r.dbg) : r.dbg[i] = "restart"
       THEN r ELSE Debug(r, "callback_return")

\* void clearEEPROM(): every byte written 0, the validity marker included
clearEEPROM(s) == [s EXCEPT !.eeprom = [valid |-> FALSE, config |-> ZeroConfig]]

\* void loadConfig(): the stored Config when the marker is there, else the
\* defaults, saved at once
loadConfig(s) ==
    IF s.eeprom.valid THEN [s EXCEPT !.config = s.eeprom.config]
    ELSE saveConfig([s EXCEPT !.config = DefaultConfig])

\* a variant of Boot that does not look at the buttons
BootNoReset(s, bothHeld) ==
    LET up == loadConfig(s)
    IN [InitDev(0, up.config) EXCEPT !.eeprom = up.eeprom, !.boots = s.boots + 1]

\* setup(): the globals after a restart with the EEPROM content of s;
\* bothHeld: both button inputs read HIGH at startup
Boot(s, bothHeld) ==
    LET up == loadConfig(IF bothHeld THEN clearEEPROM(s) ELSE s)
    IN [InitDev(0, up.config) EXCEPT !.eeprom = up.eeprom, !.boots = s.boots + 1]

\* The inputs one loop() iteration reads
\*   msg        the message mqtt.loop() delivers (NoMsg: none)
\*   adc1, adc2 analogRead(ADC_PIN1), analogRead(ADC_PIN2)
\*   pin0, pin1 digitalRead(BUTTON_DOWNSTAIRS) = HIGH, digitalRead(BUTTON_DOOR) = HIGH
\*   busy       digitalRead(DFPLAYER_BUSY)
\*   local      the indeterminate local of checkButtons
\*   dt         time to the start of the next iteration

\* void loop(), from mqtt.loop() on, in the build selected by mode
loopBody(s0, in, mode) ==
    LET s == [s0 EXCEPT !.pub = <<>>, !.df = <<>>, !.dbg = <<>>]
        s1 == IF in.msg = NoMsg THEN s ELSE callback(s, in.msg)
        s2 == [s1 EXCEPT !.currentTime = s1.now]
        s3 == TimerCheck(s2)
        s4 == PlaybackCheck(s3, in.busy)
        s5 == PendingPlay(s4)
        s6 == IF mode = "digital"
              THEN checkButtons(s5, in.pin0, in.pin1, in.local)
              ELSE checkADC(s5, in.adc1, in.adc2)
        s7 == ButtonActions(s6)
    IN IF \E i \in 1..Len(s1.dbg) : s1.dbg[i] = "restart"
       THEN Boot(s1, in.pin0 /\ in.pin1)
       ELSE [s7 EXCEPT !.now = @ + in.dt]

\* ------------------------------------------------------------------------
\* Emergency/panic firmware (src/unnamed/part_002)
\* ------------------------------------------------------------------------

debounceDelay == 200
BUTTON_PRESS_DURATION == 800

\* Config after loadConfig() found no validity marker (defaults)
DefaultConfigE ==
    [downstairs_track |-> 1, door_track |-> 2,
     downstairs_volume |-> 50, door_volume |-> 50,
     emergency_track |-> 99, emergency_volume |-> 100,
     emergency_duration |-> 60,
     panic_press_threshold |-> 5, panic_window |-> 20,
     button_cooldown_ms |-> 15000, volume_reset_ms |-> 60000]

\* The globals of part_002 as initialised, with the clock at t0 and the
\* configuration cfg (the LED bookkeeping is left out: nothing reads it back)
InitEmg(t0, cfg) ==
    [now |-> t0,
     lastDebounceTime |-> 0,
     buttonDownstairsPressStart |-> 0,
     buttonDoorPressStart |-> 0,
     buttonDownstairsWasPressed |-> FALSE,
     buttonDoorWasPressed |-> FALSE,
     emergencyMode |-> FALSE,
     firstPressTime |-> 0,
     pressCount |-> 0,
     emergencyStartTime |-> 0,
     lastPlayTime |-> 0,
     volumeResetTimer |-> 0,
     isPlaying |-> FALSE,
     playRequest |-> [pending |-> FALSE, track |-> 0, volume |-> 0],
     config |-> cfg,
     eeprom |-> [valid |-> TRUE, config |-> cfg],
     boots |-> 0,
     pub |-> <<>>,      \* mqtt.publish calls of the last iteration
     df |-> <<>>,       \* dfPlayer calls of the last iteration
     dbg |-> <<>>]      \* points of the code passed in the last iteration

\* a dfPlayer call, with the emergencyMode it is made under and the part of
\* the code that makes it
PlayerE(s, op, arg, by) ==
    [s EXCEPT !.df = Append(@, [op |-> op, arg |-> arg, by |-> by,
                                emergency |-> s.emergencyMode])]

\* handleButton: "Check if we need to reset volume" (also in loop())
VolumeResetE(s, by) ==
    IF s.isPlaying /\ USub(s.now, s.volumeResetTimer) >= s.config.volume_reset_ms
    THEN [PlayerE(s, "volume", 0, by) EXCEPT !.isPlaying = FALSE]
    ELSE s

\* handleButton / callback: emergency mode is switched on
ActivateEmergency(s) ==
    LET s1 == [s EXCEPT !.emergencyMode = TRUE, !.emergencyStartTime = s.now]
        s2 == PlayerE(s1, "volume", percentToVolume(s.config.emergency_volume),
                      "emergency_on")
    IN PlayerE(s2, "loop", s.config.emergency_track, "emergency_on")

\* loop() / callback: emergency mode is switched off
DeactivateEmergency(s) ==
    LET s1 == [s EXCEPT !.emergencyMode = FALSE]
        s2 == PlayerE(s1, "stop", 0, "emergency_off")
    IN PlayerE(s2, "volume", percentToVolume(s.config.door_volume), "emergency_off")

\* a variant of InPanicWindow with < in place of <=
InPanicWindowStrict(s) ==
    USub(s.now, s.firstPressTime) < s.config.panic_window * 1000

\* handleButton: "Check if we're still within the time window"
InPanicWindow(s) ==
    USub(s.now, s.firstPressTime) <= s.config.panic_window * 1000

\* handleButton: "Panic button detection logic"; the result carries the
\* dbg mark "panic" when the threshold branch returned from handleButton
PanicDetection(s, button) ==
    IF ~s.emergencyMode /\ button = BUTTON_DOOR
    THEN IF s.pressCount = 0
         THEN [s EXCEPT !.firstPressTime = s.now, !.pressCount = 1]
         ELSE IF InPanicWindow(s)
         THEN IF s.pressCount + 1 >= s.config.panic_press_threshold
              THEN LET s1 == ActivateEmergency([s EXCEPT !.pressCount = @ + 1])
                       s2 == Publish(s1, "doorbell/status", "emergency:panic_button",
                                     <<s1.pressCount, USub(s.now, s.firstPressTime)>>)
                   IN Debug([s2 EXCEPT !.pressCount = 0], "panic")
              ELSE [s EXCEPT !.pressCount = @ + 1]
         ELSE [s EXCEPT !.firstPressTime = s.now, !.pressCount = 1]
    ELSE s

\* handleButton: "Normal doorbell handling"
NormalHandling(s, button) ==
    IF s.emergencyMode THEN s
    ELSE IF s.isPlaying /\ USub(s.now, s.lastPlayTime) < s.config.button_cooldown_ms
    THEN s
    ELSE IF button = BUTTON_DOWNSTAIRS \/ button = BUTTON_DOOR
    THEN LET down == button = BUTTON_DOWNSTAIRS
             vol == IF down THEN s.config.downstairs_volume ELSE s.config.door_volume
             track == IF down THEN s.config.downstairs_track ELSE s.config.door_track
             s1 == PlayerE(s, "volume", percentToVolume(vol), "button")
             s2 == PlayerE(s1, "play", track, "button")
             s3 == Publish(s2, "doorbell/event", IF down THEN "downstairs" ELSE "door",
                           <<>>)
         IN [s3 EXCEPT !.lastPlayTime = s.now,
                       !.volumeResetTimer = s.now,
                       !.isPlaying = TRUE]
    ELSE s

\* void handleButton(int button, bool simulated)
handleButton(s, button) ==
    IF USub(s.now, s.lastDebounceTime) < debounceDelay
    THEN s
    ELSE LET s1 == Debug([s EXCEPT !.lastDebounceTime = s.now],
                         IF button = BUTTON_DOOR THEN "press_door" ELSE "press_downstairs")
             s2 == VolumeResetE(s1, "volume_reset")
             s3 == PanicDetection(s2, button)
         IN IF Len(s3.dbg) > 0 /\ s3.dbg[Len(s3.dbg)] = "panic"
            THEN s3
            ELSE NormalHandling(s3, button)

\* doc["..."] converted to uint16_t: a value outside 0..65535 reads as 0
JsonU16(v) == IF v \in 0..65535 THEN v ELSE 0

NoMsgE == [topic |-> "", text |-> "", json |-> FALSE, keys |-> {}, track |-> 0,
           volume |-> 0, duration |-> 0, panic_threshold |-> 0, panic_window |-> 0,
           button_cooldown_ms |-> 0, volume_reset_ms |-> 0]

\* callback(): "doorbell/set/emergency"
SetEmergency(s, m) ==
    LET Set(c, key, field, v) == IF key \in m.keys THEN [c EXCEPT ![field] = v] ELSE c
        c1 == Set(s.config, "track", "emergency_track", JsonU8(m.track))
        c2 == Set(c1, "volume", "emergency_volume", JsonU8(m.volume))
        c3 == Set(c2, "duration", "emergency_duration", JsonU16(m.duration))
        c4 == Set(c3, "panic_threshold", "panic_press_threshold", JsonU8(m.panic_threshold))
        c5 == Set(c4, "panic_window", "panic_window", JsonU16(m.panic_window))
        c6 == Set(c5, "button_cooldown_ms", "button_cooldown_ms",
                  JsonU16(m.button_cooldown_ms))
        c7 == Set(c6, "volume_reset_ms", "volume_reset_ms", JsonU16(m.volume_reset_ms))
    IN Debug([s EXCEPT !.config = c7, !.eeprom = [valid |-> TRUE, config |-> c7]],
             "publishConfig")

\* callback(): "doorbell/set/button/downstairs" and ".../door"
SetButtonE(s, m, which) ==
    LET trackField == IF which = 0 THEN "downstairs_track" ELSE "door_track"
        volField == IF which = 0 THEN "downstairs_volume" ELSE "door_volume"
        c1 == IF "track" \in m.keys
              THEN [s.config EXCEPT ![trackField] = JsonU8(m.track)] ELSE s.config
        c2 == IF "volume" \in m.keys
              THEN [c1 EXCEPT ![volField] = JsonU8(m.volume)] ELSE c1
    IN [s EXCEPT !.config = c2, !.eeprom = [valid |-> TRUE, config |-> c2]]

\* the topics that pass strncmp(topic_copy, "doorbell/set/", 12)
SetTopicsE ==
    {"doorbell/set/button/downstairs", "doorbell/set/button/door",
     "doorbell/set/config", "doorbell/set/emergency", "doorbell/set/other"}

\* void callback(char* topic, byte* payload, unsigned int length); every
\* message is first echoed on doorbell/debug; a reboot request only marks the
\* state, loopE below restarts the device
callbackE(s0, m) ==
    LET s == Publish(s0, "doorbell/debug", "Received", <<>>)
    IN IF m.topic = "doorbell/simulate/door" THEN handleButton(s, BUTTON_DOOR)
       ELSE IF m.topic = "doorbell/simulate/downstairs"
       THEN handleButton(s, BUTTON_DOWNSTAIRS)
       ELSE IF m.topic = "doorbell/system/reboot"
       THEN IF m.text = "REBOOT"
            THEN Debug(Publish(s, "doorbell/status", "reboot", <<>>), "restart")
            ELSE Publish(s, "doorbell/status", "reboot:confirm", <<>>)
       ELSE IF m.topic = "doorbell/get/config"
       THEN Debug(Publish(s, "doorbell/debug", "Getting config", <<>>),
                  "publishConfig")
       ELSE IF m.topic = "doorbell/get/status"
       THEN Publish(s, "doorbell/status", "online", <<>>)
       ELSE IF m.topic = "doorbell/play/"
       THEN IF m.track > 0
            THEN [s EXCEPT !.playRequest = [pending |-> TRUE, track |-> m.track,
                                            volume |-> 100]]
            ELSE s
       ELSE IF m.topic = "doorbell/emergency"
       THEN IF m.text = "ON" /\ ~s.emergencyMode
            THEN Publish(ActivateEmergency(s), "doorbell/status", "emergency:on", <<>>)
            ELSE IF m.text = "OFF" /\ s.emergencyMode
            THEN Publish(DeactivateEmergency(s), "doorbell/status", "emergency:off", <<>>)
            ELSE s
       ELSE IF m.topic \notin SetTopicsE
       THEN Publish(s, "doorbell/debug", "Error: Unknown command", <<>>)
       ELSE IF ~m.json THEN Publish(s, "doorbell/debug", "Failed to parse JSON", <<>>)
       ELSE IF m.topic = "doorbell/set/button/downstairs" THEN SetButtonE(s, m, 0)
       ELSE IF m.topic = "doorbell/set/button/door" THEN SetButtonE(s, m, 1)
       ELSE IF m.topic = "doorbell/set/config"
       THEN [s EXCEPT !.eeprom = [valid |-> TRUE, config |-> s.config]]
       ELSE IF m.topic = "doorbell/set/emergency" THEN SetEmergency(s, m)
       ELSE s

\* loop(): "Handle pending play requests"
PendingPlayE(s) ==
    IF s.playRequest.pending
    THEN LET s1 == VolumeResetE(s, "volume_reset")
             s2 == IF ~s1.isPlaying
                      \/ USub(s1.now, s1.lastPlayTime) >= s1.config.button_cooldown_ms
                   THEN LET p1 == PlayerE(s1, "volume",
                                          percentToVolume(s1.playRequest.volume), "pending")
                            p2 == PlayerE(p1, "play", s1.playRequest.track, "pending")
                        IN Publish([p2 EXCEPT !.lastPlayTime = s1.now,
                                              !.volumeResetTimer = s1.now,
                                              !.isPlaying = TRUE],
                                   "doorbell/debug", "Playing queued track", <<>>)
                   ELSE s1
         IN [s2 EXCEPT !.playRequest.pending = FALSE]
    ELSE s

\* a variant of EmergencyTimeout without the emergency_duration > 0 test
EmergencyTimeoutNoZeroCheck(s) ==
    IF s.emergencyMode
       /\ USub(s.now, s.emergencyStartTime) >= s.config.emergency_duration * 1000
    THEN Publish(Debug(DeactivateEmergency(s), "emergency_timeout"),
                 "doorbell/status", "emergency:auto-disabled", <<>>)
    ELSE s

\* loop(): "Check if emergency duration has elapsed"
EmergencyTimeout(s) ==
    IF s.emergencyMode
       /\ s.config.emergency_duration > 0
       /\ USub(s.now, s.emergencyStartTime) >= s.config.emergency_duration * 1000
    THEN Publish(Debug(DeactivateEmergency(s), "emergency_timeout"),
                 "doorbell/status", "emergency:auto-disabled", <<>>)
    ELSE s

\* loop(): one physical button; wasField / startField name its two globals
PollButton(s, high, button, wasField, startField) ==
    IF high /\ ~s[wasField]
    THEN [s EXCEPT ![startField] = s.now, ![wasField] = TRUE]
    ELSE IF high /\ s[wasField]
    THEN IF USub(s.now, s[startField]) >= BUTTON_PRESS_DURATION
         THEN [handleButton(s, button) EXCEPT ![startField] = s.now]
         ELSE s
    ELSE IF ~high /\ s[wasField]
    THEN [s EXCEPT ![wasField] = FALSE]
    ELSE s

\* loop(): "Check buttons only if not in emergency mode"
PollButtons(s, downstairsHigh, doorHigh) ==
    IF s.emergencyMode THEN s
    ELSE PollButton(PollButton(s, downstairsHigh, BUTTON_DOWNSTAIRS,
                               "buttonDownstairsWasPressed", "buttonDownstairsPressStart"),
                    doorHigh, BUTTON_DOOR,
                    "buttonDoorWasPressed", "buttonDoorPressStart")

\* setup(): the globals after a restart with the given EEPROM content
BootE(s) ==
    LET cfg == IF s.eeprom.valid THEN s.eeprom.config ELSE DefaultConfigE
    IN [InitEmg(0, cfg) EXCEPT !.boots = s.boots + 1, !.dbg = <<"restart">>]

\* void loop(), from mqtt.loop() on
loopE(s0, in) ==
    LET s == [s0 EXCEPT !.pub = <<>>, !.df = <<>>, !.dbg = <<>>]
        s1 == IF in.msg = NoMsgE THEN s ELSE callbackE(s, in.msg)
        s2 == PendingPlayE(s1)
        s3 == EmergencyTimeout(s2)
        s4 == PollButtons(s3, in.pin0, in.pin1)
    IN IF \E i \in 1..Len(s1.dbg) : s1.dbg[i] = "restart"
       THEN BootE(s1)
       ELSE [s4 EXCEPT !.now = @ + in.dt]

\* ------------------------------------------------------------------------
\* Observer of the analog sessions (history only, never read by the firmware)
\* ------------------------------------------------------------------------

Passed(d, what) == \E i \in 1..Len(d.dbg) : d.dbg[i] = what

IsHigh(v1, v2) == v1 >= ADC_THRESHOLD \/ v2 >= ADC_THRESHOLD

IsLow(v1, v2) ==
    v1 < ADC_THRESHOLD - ADC_HYSTERESIS /\ v2 < ADC_THRESHOLD - ADC_HYSTERESIS

SessionEnded(d) ==
    Passed(d, "session_end_dropout") \/ Passed(d, "session_end_duration")
    \/ Passed(d, "buffer_full")

\* the record of the session that iteration d0 -> d1 ended
EndedSession(o, d0, d1) ==
    LET reported == IF Passed(d1, "trigger_door") THEN 1
                    ELSE IF Passed(d1, "trigger_downstairs") THEN 0 ELSE -1
    IN [startTime |-> d1.currentSession.startTime,
        endTime |-> d1.currentSession.endTime,
        button |-> reported,
        attributed |-> o.attributed,
        emitted |-> reported # -1,
        played |-> d1.isPlaying /\ ~d0.isPlaying]

\* obs after an iteration that took the firmware from d0 to d1 on inputs in
Observe(o, d0, d1, in) ==
    IF ~Passed(d1, "sample")
    THEN [o EXCEPT !.sampled = FALSE, !.v1 = 0, !.v2 = 0, !.ended = NoSession]
    ELSE
    LET t == d1.lastAdcRead
        v1 == Voltage(in.adc1)
        v2 == Voltage(in.adc2)
        active == d1.currentSession.isActive
    IN [sampled |-> TRUE,
        v1 |-> v1, v2 |-> v2,
        wasActive |-> d0.currentSession.isActive,
        lastHigh |-> IF ~active THEN -1
                     ELSE IF IsHigh(v1, v2) THEN t ELSE o.lastHigh,
        lastNotLow |-> IF ~active THEN -1
                       ELSE IF ~IsLow(v1, v2) THEN t ELSE o.lastNotLow,
        lowSince |-> IF ~active \/ ~IsLow(v1, v2) THEN -1
                     ELSE IF o.lowSince = -1 THEN t ELSE o.lowSince,
        attributed |-> IF ~active THEN -1
                       ELSE IF Passed(d1, "session_start")
                            THEN d1.currentSession.buttonDetected
                       ELSE o.attributed,
        ended |-> IF SessionEnded(d1) THEN EndedSession(o, d0, d1) ELSE NoSession]

\* tally after the same iteration
Count(c, o, d0, d1) ==
    LET e == EndedSession(o, d0, d1)
    IN [onset |-> c.onset,
        nStarted |-> c.nStarted + (IF Passed(d1, "session_start") THEN 1 ELSE 0),
        nEnded |-> c.nEnded + (IF SessionEnded(d1) THEN 1 ELSE 0),
        first |-> IF SessionEnded(d1) /\ c.nEnded = 0 THEN e ELSE c.first,
        last |-> IF SessionEnded(d1) THEN e ELSE c.last]

\* ------------------------------------------------------------------------
\* Specification SpecADC: the analog build sampling arbitrary voltages
\* ------------------------------------------------------------------------

\* ADC counts offered to the classifier: 0 V, 2.8 V (inside the hysteresis
\* band), 3.1 V and 3.2 V
RawZero == 0
RawBand == 3475
RawHigh31 == 3847
RawHigh32 == 3971

\* millis() when setup() returns: shortly after power-up, and after the
\* default cooldown has run out
BootTimes == {1000, 20000}

Inputs(msg, adc1, adc2, pin0, pin1, busy, local, dt) ==
    [msg |-> msg, adc1 |-> adc1, adc2 |-> adc2, pin0 |-> pin0, pin1 |-> pin1,
     busy |-> busy, local |-> local, dt |-> dt]

InitEmgIdle == InitEmg(0, DefaultConfigE)

InitNet == [pc |-> "loop", brokerUp |-> TRUE, connected |-> TRUE, wdtFed |-> 0,
            sampled |-> FALSE]

\* the two lines as sampled together: idle, one line high, both high, one
\* line inside the hysteresis band
LinePairs ==
    {<<RawZero, RawZero>>, <<RawHigh32, RawZero>>, <<RawZero, RawHigh32>>,
     <<RawHigh32, RawHigh32>>, <<RawBand, RawZero>>, <<RawZero, RawBand>>}

\* duration of one loop() iteration: the sampling cadence, or a slow one
IterationTimes == {ADC_SAMPLE_INTERVAL, 100}

\* the BUSY pin is read as HIGH (idle) or LOW; it matters only while playing
BusyReads(d) == IF d.isPlaying THEN BOOLEAN ELSE {TRUE}

InitADC ==
    /\ \E t0 \in BootTimes : dev = InitDev(t0, DefaultConfig)
    /\ obs = InitObs
    /\ tally = InitTally
    /\ emg = InitEmgIdle
    /\ net = InitNet
    /\ iter = 0

\* one loop() iteration of the analog build, no message delivered
AnalogIteration ==
    /\ iter < MaxIter
    /\ \E line \in LinePairs, busy \in BusyReads(dev), dt \in IterationTimes :
         LET in == Inputs(NoMsg, line[1], line[2], FALSE, FALSE, busy, 0, dt)
             d1 == loopBody(dev, in, "analog")
         IN /\ dev' = d1
            /\ obs' = Observe(obs, dev, d1, in)
    /\ iter' = iter + 1
    /\ UNCHANGED <<tally, emg, net>>

SpecADC == InitADC /\ [][AnalogIteration]_vars

\* ------------------------------------------------------------------------
\* Specification SpecScenario: the analog build fed the scenario stream
\*   line 2 at 3.2 V for 250 ms, both lines at 0 V for 5 ms, line 2 at 3.1 V
\*   for 100 ms, then 0 V; line 1 idle; one sample every 5 ms
\* ------------------------------------------------------------------------

\* analogRead(ADC_PIN2) at e milliseconds after onset
ScenarioLine2(e) ==
    IF e < 250 THEN RawHigh32
    ELSE IF e < 255 THEN RawZero
    ELSE IF e < 355 THEN RawHigh31
    ELSE RawZero

InitScenario ==
    /\ \E t0 \in BootTimes :
         /\ dev = InitDev(t0, DefaultConfig)
         /\ tally = [InitTally EXCEPT !.onset = t0]
    /\ obs = InitObs
    /\ emg = InitEmgIdle
    /\ net = InitNet
    /\ iter = 0

ScenarioIteration ==
    /\ dev.now - tally.onset < MaxScenarioMs
    /\ \E busy \in BusyReads(dev) :
         LET in == Inputs(NoMsg, RawZero, ScenarioLine2(dev.now - tally.onset),
                          FALSE, FALSE, busy, 0, ADC_SAMPLE_INTERVAL)
             d1 == loopBody(dev, in, "analog")
         IN /\ dev' = d1
            /\ obs' = Observe(obs, dev, d1, in)
            /\ tally' = Count(tally, obs, dev, d1)
    /\ UNCHANGED <<emg, net, iter>>

SpecScenario == InitScenario /\ [][ScenarioIteration]_vars

\* the stream is over: the final 0 V has lasted longer than the dropout tolerance
StreamDone == dev.now - tally.onset >= 380

Duration(e) == e.endTime - e.startTime

\* C1 (as stated): the scenario stream yields exactly one session, attributed
\* to channel 2 (door), whose duration endTime - startTime is at least 350 ms.
C1_OneSessionOf350ms ==
    StreamDone =>
        /\ tally.nStarted = 1 /\ tally.nEnded = 1
        /\ tally.first.attributed = 1
        /\ Duration(tally.first) >= 350

\* C1 (amended): the first session of the scenario stream starts at onset, is
\* attributed to channel 2 (door) and is ended by the minimum-duration rule on
\* the first sample 200 ms after onset, where it emits the door press.  If that
\* press starts playback no other session is started; otherwise a second
\* session starts on the next sample, survives the 5 ms dropout and is ended by
\* the final dropout after less than 200 ms, emitting nothing.
C1_SessionEndsAtMinimumDuration ==
    /\ tally.nEnded >= 1 =>
         /\ tally.first.startTime = tally.onset
         /\ tally.first.endTime = tally.onset + MIN_SESSION_DURATION
         /\ tally.first.attributed = 1
         /\ tally.first.emitted /\ tally.first.button = 1
    /\ StreamDone =>
         /\ tally.nEnded >= 1
         /\ tally.first.played => tally.nStarted = 1 /\ tally.nEnded = 1
         /\ ~tally.first.played =>
              /\ tally.nStarted = 2 /\ tally.nEnded = 2
              /\ tally.last.startTime = tally.onset + MIN_SESSION_DURATION + ADC_SAMPLE_INTERVAL
              /\ tally.last.endTime = tally.onset + 370
              /\ ~tally.last.emitted

\* C1 witness: the stream is over and the session's press started playback
C1_Witness == StreamDone /\ tally.nEnded = 1 /\ tally.first.played

\* ------------------------------------------------------------------------
\* Claims on the analog classifier (SpecADC)
\* ------------------------------------------------------------------------

\* the sample the step takes finds a session active and both voltages below
\* threshold - hysteresis
LowSampleInSession ==
    obs'.sampled /\ obs'.wasActive /\ IsLow(obs'.v1, obs'.v2)

\* C2 (as stated): a low period that has lasted no longer than the dropout
\* tolerance never ends the session, and once the voltages have stayed low for
\* longer than the tolerance the session is ended on that sample.  The period
\* began after the last sample that was not low and no later than the first
\* low sample.
C2_LowPeriodDecidesEnd ==
    [][LowSampleInSession =>
         /\ (dev'.lastAdcRead - obs.lastNotLow <= ADC_DROPOUT_TOLERANCE
               => dev'.currentSession.isActive)
         /\ (obs.lowSince # -1
               /\ dev'.lastAdcRead - obs.lowSince > ADC_DROPOUT_TOLERANCE
               => ~dev'.currentSession.isActive)]_vars

\* C2 (amended): a sample with both voltages below threshold - hysteresis
\* keeps the session when it is taken no later than the dropout tolerance
\* after the session's last sample at or above threshold, and ends the
\* session on that sample when it is taken later than that.
C2_TimeSinceLastHighDecidesEnd ==
    [][LowSampleInSession =>
         (dev'.currentSession.isActive
            <=> dev'.lastAdcRead - obs.lastHigh <= ADC_DROPOUT_TOLERANCE)]_vars

\* C2 witness: a low sample taken exactly at the tolerance was survived, with
\* the low run begun earlier
C2_Witness ==
    /\ obs.sampled /\ obs.wasActive /\ IsLow(obs.v1, obs.v2)
    /\ dev.currentSession.isActive
    /\ dev.lastAdcRead - obs.lastHigh = ADC_DROPOUT_TOLERANCE
    /\ obs.lowSince < dev.lastAdcRead

\* C3: while a session stays active its buttonDetected does not change, and
\* the channel a session reports when it ends is the one stored at its start.
C3_AttributionFixedAtStart ==
    [][/\ (dev.currentSession.isActive /\ dev'.currentSession.isActive
             => dev'.currentSession.buttonDetected = dev.currentSession.buttonDetected)
       /\ (dev'.currentSession.isActive => obs'.attributed \in {0, 1})
       /\ (obs'.ended.emitted => obs'.ended.button = obs'.ended.attributed)]_vars

\* C3 witness: a session attributed to the door (channel 2) reports the door
\* on a sample where only line 1 is at or above threshold
C3_Witness ==
    /\ obs.ended.emitted /\ obs.ended.button = 1
    /\ obs.v1 >= ADC_THRESHOLD /\ obs.v2 < ADC_THRESHOLD

\* ------------------------------------------------------------------------
\* Specification SpecPanic: the emergency/panic build, one loop() iteration
\* per step, fed commands and button levels
\* ------------------------------------------------------------------------

\* loop() iterations explored by SpecPanic
MaxPanicIter == 4

MsgE(topic, text) == [NoMsgE EXCEPT !.topic = topic, !.text = text]

\* the commands delivered in SpecPanic
PanicMsgs ==
    {MsgE("doorbell/simulate/door", ""),
     MsgE("doorbell/simulate/downstairs", ""),
     [MsgE("doorbell/play/", "") EXCEPT !.track = 3],
     MsgE("doorbell/emergency", "ON"),
     MsgE("doorbell/emergency", "OFF"),
     MsgE("doorbell/system/reboot", "REBOOT")}

\* what one iteration is fed: a command with both buttons released, or no
\* command and the button levels
PanicInputs ==
    {[msg |-> m, pin0 |-> FALSE, pin1 |-> FALSE] : m \in PanicMsgs}
    \cup {[msg |-> NoMsgE, pin0 |-> p[1], pin1 |-> p[2]] :
            p \in {<<FALSE, FALSE>>, <<TRUE, FALSE>>, <<FALSE, TRUE>>}}

\* duration of one loop() iteration
PanicIterationTimes == {100, 1000}

\* stored configurations the device boots with; the last has a volume reset
\* time below the button cooldown
PanicConfigs ==
    {[DefaultConfigE EXCEPT !.panic_press_threshold = th, !.panic_window = 1,
                            !.emergency_duration = du,
                            !.button_cooldown_ms = 1000, !.volume_reset_ms = 2000] :
       th \in {1, 2, 3}, du \in {0, 1}}
    \cup {[DefaultConfigE EXCEPT !.panic_press_threshold = 3, !.panic_window = 1,
                                 !.emergency_duration = 0,
                                 !.button_cooldown_ms = 2000, !.volume_reset_ms = 1000]}

\* observer of SpecPanic: the command the last iteration was fed
InitPanicObs == [topic |-> "", text |-> ""]

InitPanic ==
    /\ \E cfg \in PanicConfigs : emg = InitEmg(1000, cfg)
    /\ obs = InitPanicObs
    /\ dev = InitDev(0, DefaultConfig)
    /\ tally = InitTally
    /\ net = InitNet
    /\ iter = 0

PanicIteration ==
    /\ iter < MaxPanicIter
    /\ \E in \in PanicInputs, dt \in PanicIterationTimes :
         /\ emg' = loopE(emg, [msg |-> in.msg, pin0 |-> in.pin0, pin1 |-> in.pin1,
                               dt |-> dt])
         /\ obs' = [topic |-> in.msg.topic, text |-> in.msg.text]
    /\ iter' = iter + 1
    /\ UNCHANGED <<dev, tally, net>>

SpecPanic == InitPanic /\ [][PanicIteration]_vars

MarksE(e) == {e.dbg[i] : i \in 1..Len(e.dbg)}

\* the step handled a door press that passed the debounce, with emergency
\* mode off when it was handled
DoorPressStep == ~emg.emergencyMode /\ "press_door" \in MarksE(emg')

\* the step restarted the device
RestartStep == "restart" \in MarksE(emg')

\* door presses inside the current window once this press is counted
PressesInWindow ==
    IF emg.pressCount = 0
       \/ emg.now - emg.firstPressTime > emg'.config.panic_window * 1000
    THEN 1 ELSE emg.pressCount + 1

\* C5: the door press that brings the count of door presses inside the
\* current window up to panic_press_threshold sets emergencyMode and resets
\* pressCount to 0
C5_ThresholdPressActivates ==
    [][DoorPressStep /\ PressesInWindow = emg'.config.panic_press_threshold
         => emg'.emergencyMode /\ emg'.pressCount = 0]_vars

\* C6 as stated: an accepted door press with emergency mode off starts the
\* window when pressCount is 0, adds exactly 1 inside the window, restarts at
\* 1 outside it; a downstairs press changes neither field
C6_DoorPressCountsByOne ==
    [][/\ DoorPressStep =>
            IF emg.pressCount = 0
               \/ emg.now - emg.firstPressTime > emg'.config.panic_window * 1000
            THEN emg'.firstPressTime = emg.now /\ emg'.pressCount = 1
            ELSE emg'.firstPressTime = emg.firstPressTime
                 /\ emg'.pressCount = emg.pressCount + 1
       /\ "press_downstairs" \in MarksE(emg') =>
            /\ emg'.pressCount = emg.pressCount
            /\ emg'.firstPressTime = emg.firstPressTime]_vars

\* C6 amended: as above, except that a press inside the window that brings
\* the count to panic_press_threshold or more activates emergency mode and
\* leaves pressCount at 0
C6_DoorPressCountsOrActivates ==
    [][/\ DoorPressStep =>
            IF emg.pressCount = 0
               \/ emg.now - emg.firstPressTime > emg'.config.panic_window * 1000
            THEN emg'.firstPressTime = emg.now /\ emg'.pressCount = 1
            ELSE /\ emg'.firstPressTime = emg.firstPressTime
                 /\ IF emg.pressCount + 1 >= emg'.config.panic_press_threshold
                    THEN emg'.emergencyMode /\ emg'.pressCount = 0
                    ELSE emg'.pressCount = emg.pressCount + 1
       /\ "press_downstairs" \in MarksE(emg') =>
            /\ emg'.pressCount = emg.pressCount
            /\ emg'.firstPressTime = emg.firstPressTime]_vars

\* a second door press has been counted inside the window without reaching
\* the threshold
C6_Witness ==
    /\ emg.pressCount = 2
    /\ ~emg.emergencyMode
    /\ "press_door" \in MarksE(emg)
    /\ emg.config.panic_press_threshold = 3

\* C7: no audio command is sent while emergencyMode is set, other than the
\* alert's own volume and loop commands
C7_NoNormalAudioInEmergency ==
    \A i \in 1..Len(emg.df) : emg.df[i].emergency => emg.df[i].by = "emergency_on"

\* the elapsed-time rule of the emergency timeout, at the iteration's clock
EmergencyElapsed ==
    /\ emg'.config.emergency_duration > 0
    /\ emg.now - emg.emergencyStartTime >= emg'.config.emergency_duration * 1000

OffHandled == obs'.topic = "doorbell/emergency" /\ obs'.text = "OFF"

\* C8 as stated: emergencyMode stays set until an OFF command is handled or
\* emergency_duration is positive and has elapsed
C8_ClearedByOffOrTimeout ==
    [][emg.emergencyMode /\ ~emg'.emergencyMode => OffHandled \/ EmergencyElapsed]_vars

\* C8 amended: emergencyMode stays set until an OFF command is handled, the
\* positive emergency_duration has elapsed, or the device restarts; an
\* iteration that finds the positive duration elapsed clears it
C8_ClearedByOffTimeoutOrRestart ==
    [][/\ emg.emergencyMode /\ ~emg'.emergencyMode
            => OffHandled \/ EmergencyElapsed \/ RestartStep
       /\ emg.emergencyMode /\ EmergencyElapsed /\ ~RestartStep
            => ~emg'.emergencyMode]_vars

\* the timeout has just cleared emergency mode
C8_Witness ==
    /\ ~emg.emergencyMode
    /\ "emergency_timeout" \in MarksE(emg)
    /\ emg.config.emergency_duration = 1

\* emergency mode is still on although more than a second has passed, the
\* duration being 0
C8_WitnessIndefinite ==
    /\ emg.emergencyMode
    /\ emg.config.emergency_duration = 0
    /\ emg.now - emg.emergencyStartTime >= 2000

\* the DFPlayer was told to play by the normal doorbell handling of
\* handleButton during the iteration
ButtonPlayed(e) ==
    \E i \in 1..Len(e.df) : e.df[i].op = "play" /\ e.df[i].by = "button"

\* C20: in the emergency firmware, whatever button_cooldown_ms and
\* volume_reset_ms are configured, a button-triggered normal playback
\* starts no less than button_cooldown_ms after the start of the previous
\* playback (lastPlayTime, when a playback has been recorded since boot)
C20_ButtonPlaybackAfterCooldownE ==
    [][ButtonPlayed(emg') /\ emg.lastPlayTime > 0 /\ ~RestartStep =>
         USub(emg'.lastPlayTime, emg.lastPlayTime)
             >= emg.config.button_cooldown_ms]_vars

\* ------------------------------------------------------------------------
\* Specification SpecDigital: the timer/analog firmware built with
\* INPUT_MODE_DIGITAL, one loop() iteration per step
\* ------------------------------------------------------------------------

\* loop() iterations explored by SpecDigital
MaxDigitalIter == 5

\* an arbitrary word, for the value an uninitialised local may hold
StaleWord == 2000000000

\* what the self-initialised local of checkButtons may hold: the loop's
\* clock, zero, or an arbitrary word
LocalValues(d) == {d.now, 0, StaleWord}

DigitalPins == {<<FALSE, FALSE>>, <<TRUE, FALSE>>, <<FALSE, TRUE>>}

DigitalIterationTimes == {50, 200}

\* observer of SpecDigital: for each channel the loop clock of the poll that
\* first saw the present hold (-1: released)
InitDigitalObs == [heldSince |-> [i \in {0, 1} |-> -1]]

InitDigital ==
    /\ \E t0 \in BootTimes : dev = InitDev(t0, DefaultConfig)
    /\ obs = InitDigitalObs
    /\ tally = InitTally
    /\ emg = InitEmgIdle
    /\ net = InitNet
    /\ iter = 0

DigitalIteration ==
    /\ iter < MaxDigitalIter
    /\ \E pins \in DigitalPins, local \in LocalValues(dev),
          busy \in BusyReads(dev), dt \in DigitalIterationTimes :
         LET in == Inputs(NoMsg, RawZero, RawZero, pins[1], pins[2], busy, local, dt)
             d1 == loopBody(dev, in, "digital")
             h(i) == IF ~pins[i + 1] THEN -1
                     ELSE IF obs.heldSince[i] = -1 THEN d1.currentTime
                     ELSE obs.heldSince[i]
         IN /\ dev' = d1
            /\ obs' = [heldSince |-> [i \in {0, 1} |-> h(i)]]
    /\ iter' = iter + 1
    /\ UNCHANGED <<tally, emg, net>>

SpecDigital == InitDigital /\ [][DigitalIteration]_vars

\* C4: after every poll, on each channel isValidPress is false while the
\* input is released or has been held for less than 200 ms of the loop's
\* clock, and true once it has been held for at least 200 ms
C4_HoldOf200msDecidesValidPress ==
    \A i \in {0, 1} :
        dev.buttonStates[i].isValidPress
          <=> /\ obs.heldSince[i] # -1
              /\ dev.currentTime - obs.heldSince[i] >= VALID_HOLD

\* ------------------------------------------------------------------------
\* Specification SpecTimer: the timer/analog firmware fed timer commands,
\* both lines idle
\* ------------------------------------------------------------------------

\* loop() iterations explored by SpecTimer
MaxTimerIter == 5

\* a seconds value of more than 49 days, an int whose product with 1000
\* does not fit unsigned long
LongSeconds == 4294968

TimerSetMsg(keys, seconds) ==
    [NoMsg EXCEPT !.topic = "doorbell/timer/set", !.json = TRUE, !.keys = keys,
                  !.seconds = seconds, !.track = 4, !.volume = 50]

\* the commands delivered in SpecTimer; seconds is what
\* doc["seconds"].as<int>() yields
TimerMsgs ==
    {NoMsg, [NoMsg EXCEPT !.topic = "doorbell/timer/stop"]}
    \cup {TimerSetMsg(keys, seconds) :
            keys \in {{"seconds", "track", "volume"}, {"seconds"}},
            seconds \in {-1, 0, 1, 2}}
    \cup {TimerSetMsg({"seconds", "track", "volume"}, LongSeconds)}

TimerIterationTimes == {500, 1000}

\* what a rejected request must leave alone: the timer, the pending play
\* request, the playback state and the configuration
Kept(d) ==
    [timer |-> d.timer, playRequest |-> d.playRequest, isPlaying |-> d.isPlaying,
     lastPlayTime |-> d.lastPlayTime, volumeResetTimer |-> d.volumeResetTimer,
     config |-> d.config, eeprom |-> d.eeprom]

\* observer of SpecTimer:
\*   msg      the command the last iteration was fed
\*   timer    the timer as callback() left it
\*   cb       Kept() of the device as callback() left it
\*   stopped  a doorbell/timer/stop was handled while a timer was active and
\*            no doorbell/timer/set has been accepted since
InitTimerObs ==
    [msg |-> NoMsg, timer |-> InitDev(0, DefaultConfig).timer,
     cb |-> Kept(InitDev(0, DefaultConfig)), stopped |-> FALSE]

InitTimer ==
    /\ \E t0 \in BootTimes :
         /\ dev = InitDev(t0, DefaultConfig)
         /\ obs = [InitTimerObs EXCEPT !.cb = Kept(dev)]
    /\ tally = InitTally
    /\ emg = InitEmgIdle
    /\ net = InitNet
    /\ iter = 0

TimerIteration ==
    /\ iter < MaxTimerIter
    /\ \E m \in TimerMsgs, busy \in BusyReads(dev), dt \in TimerIterationTimes :
         LET in == Inputs(m, RawZero, RawZero, FALSE, FALSE, busy, 0, dt)
             cb == IF m = NoMsg THEN dev ELSE callback(dev, m)
         IN /\ dev' = loopBody(dev, in, "analog")
            /\ obs' = [msg |-> m,
                       timer |-> cb.timer,
                       cb |-> Kept(cb),
                       stopped |-> IF m.topic = "doorbell/timer/stop" /\ dev.timer.active
                                   THEN TRUE
                                   ELSE IF cb.timer.active /\ ~dev.timer.active
                                   THEN FALSE
                                   ELSE obs.stopped]
    /\ iter' = iter + 1
    /\ UNCHANGED <<tally, emg, net>>

SpecTimer == InitTimer /\ [][TimerIteration]_vars

\* the step handled a doorbell/timer/set whose seconds value is <= 0
NonPositiveTimerSet ==
    /\ obs'.msg.topic = "doorbell/timer/set"
    /\ obs'.msg.json
    /\ "seconds" \in obs'.msg.keys
    /\ obs'.msg.seconds <= 0

\* the first status the step published on doorbell/timer/status
TimerStatus(d) ==
    LET on == {i \in 1..Len(d.pub) : d.pub[i].topic = "doorbell/timer/status"}
    IN IF on = {} THEN "none"
       ELSE d.pub[CHOOSE i \in on : \A j \in on : i <= j].text

\* C10 as stated: a timer/set with seconds <= 0 fails with 'Invalid
\* duration', whether a timer is active or not, and leaves the timer unchanged
C10_NonPositiveIsInvalidDuration ==
    [][NonPositiveTimerSet =>
         /\ TimerStatus(dev') = "error:Invalid duration"
         /\ obs'.timer = dev.timer]_vars

\* C10 amended: a timer/set with seconds <= 0 fails and leaves the timer
\* unchanged; the error is 'Timer already active' when a timer is active,
\* 'Missing required fields' when none is active and track or volume is
\* absent, and 'Invalid duration' otherwise
C10_NonPositiveFailsTimerUnchanged ==
    [][NonPositiveTimerSet =>
         /\ obs'.timer = dev.timer
         /\ TimerStatus(dev') =
              IF dev.timer.active THEN "error:Timer already active"
              ELSE IF ~({"track", "volume"} \subseteq obs'.msg.keys)
              THEN "error:Missing required fields"
              ELSE "error:Invalid duration"]_vars

\* a complete timer/set with seconds <= 0 was refused while a timer runs
C10_Witness ==
    /\ obs.msg.topic = "doorbell/timer/set"
    /\ obs.msg.seconds <= 0
    /\ obs.msg.keys = {"seconds", "track", "volume"}
    /\ dev.timer.active
    /\ TimerStatus(dev) = "error:Timer already active"

\* the step handled a doorbell/timer/set with a JSON payload
TimerSetHandled ==
    obs'.msg.topic = "doorbell/timer/set" /\ obs'.msg.json

\* the step handled a doorbell/timer/set carrying seconds > 0, track and volume
CompleteTimerSet ==
    /\ TimerSetHandled
    /\ {"seconds", "track", "volume"} \subseteq obs'.msg.keys
    /\ obs'.msg.seconds > 0

\* the number of 'ended' statuses the iteration published
EndedCount(d) ==
    Cardinality({i \in 1..Len(d.pub) :
                   /\ d.pub[i].topic = "doorbell/timer/status"
                   /\ d.pub[i].text = "ended"})

\* C11: a timer/set with seconds > 0, track and volume handled while no timer
\* is active arms the timer with exactly those values (durationMs is seconds
\* times 1000, counted from the time of the command) and publishes 'started';
\* every timer/set handled while a timer is active is rejected with 'Timer
\* already active' and leaves the timer unchanged
C11_SetArmsExactlyOrRejects ==
    [][/\ CompleteTimerSet /\ ~dev.timer.active =>
            /\ obs'.timer.active
            /\ obs'.timer.startTime = dev.now
            /\ obs'.timer.durationMs \div 1000 = obs'.msg.seconds
            /\ obs'.timer.durationMs % 1000 = 0
            /\ obs'.timer.track = obs'.msg.track
            /\ obs'.timer.volume = obs'.msg.volume
            /\ TimerStatus(dev') = "started"
       /\ TimerSetHandled /\ dev.timer.active =>
            /\ TimerStatus(dev') = "error:Timer already active"
            /\ obs'.timer = dev.timer]_vars

\* the step handled a timer request that the firmware rejects
RejectedTimerRequest ==
    \/ TimerSetHandled /\ dev.timer.active
    \/ TimerSetHandled /\ ~({"seconds", "track", "volume"} \subseteq obs'.msg.keys)
    \/ TimerSetHandled /\ obs'.msg.seconds <= 0
    \/ obs'.msg.topic = "doorbell/timer/stop" /\ ~dev.timer.active

\* the error statuses of doorbell/timer/status
ErrorStatus(text) ==
    text \in {"error:Timer already active", "error:Missing required fields",
              "error:Invalid duration", "error:No active timer"}

\* C12: every rejected timer request (a set while a timer is active, a set
\* with a missing field or seconds <= 0, a stop with no active timer)
\* publishes an error status on doorbell/timer/status and leaves the timer,
\* the pending play request, the playback state and the configuration as
\* they were
C12_RejectedRequestChangesNothing ==
    [][RejectedTimerRequest =>
         /\ ErrorStatus(TimerStatus(dev'))
         /\ obs'.cb = Kept(dev)]_vars

\* a stop handled with no timer active was answered by 'No active timer'
\* and left the device as it was
C12_Witness ==
    /\ obs.msg.topic = "doorbell/timer/stop"
    /\ TimerStatus(dev) = "error:No active timer"
    /\ ~dev.timer.active
    /\ obs.cb = Kept(dev)
    /\ iter > 0

\* the timer is due at the loop's timer check of the step: it is active
\* after the callback and durationMs have passed since startTime
TimerDue ==
    /\ obs'.timer.active
    /\ USub(dev.now, obs'.timer.startTime) >= obs'.timer.durationMs

\* C13: an armed timer fires on the first loop iteration at which
\* now - startTime >= durationMs and on no earlier one; firing publishes
\* exactly one 'ended' status, makes the timer inactive (so it fires once)
\* and makes the timer's track and volume the pending play request
C13_FiresOnceWhenDue ==
    [][/\ EndedCount(dev') = (IF TimerDue THEN 1 ELSE 0)
       /\ TimerDue =>
            /\ ~dev'.timer.active
            /\ dev'.playRequest.track = obs'.timer.track
            /\ dev'.playRequest.volume = obs'.timer.volume
            /\ dev'.playRequest.pending \/ Passed(dev', "playback_started")
       /\ ~TimerDue => dev'.timer = obs'.timer]_vars

\* a timer of 1 s has just fired, exactly 1000 ms after it was armed
C13_Witness ==
    /\ EndedCount(dev) = 1
    /\ ~dev.timer.active
    /\ dev.timer.durationMs = 1000
    /\ obs.timer.active
    /\ dev.playRequest.track = dev.timer.track

\* C14: after a timer/stop handled while a timer is active, that timer
\* never fires: until a new timer/set is accepted no iteration publishes
\* 'ended', the timer stays inactive and no play request is queued
C14_StoppedTimerNeverFires ==
    [][obs'.stopped =>
         /\ EndedCount(dev') = 0
         /\ ~dev'.timer.active
         /\ ~Passed(dev', "timer_ended")
         /\ dev'.playRequest.track = dev.playRequest.track
         /\ dev'.playRequest.volume = dev.playRequest.volume
         /\ dev'.playRequest.pending => dev.playRequest.pending]_vars

\* a timer was stopped and its deadline has passed without it firing
C14_Witness ==
    /\ obs.stopped
    /\ ~dev.timer.active
    /\ USub(dev.now, dev.timer.startTime) > dev.timer.durationMs
    /\ dev.timer.durationMs > 0
    /\ EndedCount(dev) = 0

\* ------------------------------------------------------------------------
\* Specification SpecPlay: the timer/analog firmware fed direct-play,
\* simulated-press and timer commands and door-line activations, with the
\* BUSY pin read as either level
\* ------------------------------------------------------------------------

\* loop() iterations explored by SpecPlay
MaxPlayIter == 4

\* the button_cooldown_ms stored in the EEPROM of SpecPlay
ShortCooldown == 2000

\* millis() at the first loop() iteration of SpecPlay, inside the cooldown
\* that counts from lastPlayTime = 0
PlayBootTime == 1000

PlayConfig == [DefaultConfig EXCEPT !.button_cooldown_ms = ShortCooldown]

PlayMsg(track) == [NoMsg EXCEPT !.topic = "doorbell/play/", !.track = track]

\* what one iteration of SpecPlay is fed: a command with both lines idle, or
\* no command with the door line idle or active (the analog level of line 2
\* in the analog build, the door input read HIGH in the digital build)
PlayFeeds ==
    {<<m, RawZero>> :
        m \in {NoMsg, PlayMsg(3),
               [NoMsg EXCEPT !.topic = "doorbell/simulate/door"],
               TimerSetMsg({"seconds", "track", "volume"}, 1)}}
    \cup {<<NoMsg, RawHigh32>>}

PlayIterationTimes == {500, 1000}

\* the BUSY pin is read as HIGH (idle) or LOW; the level matters only when
\* the device is playing at the playback check, which a simulated press
\* handled in the same iteration can bring about
BusyLevels(d, m) ==
    IF d.isPlaying \/ m.topic = "doorbell/simulate/door" THEN BOOLEAN ELSE {TRUE}

\* the doorbell/event messages published so far in the iteration
Events(d) ==
    Cardinality({i \in 1..Len(d.pub) : d.pub[i].topic = "doorbell/event"})

NoRequest == [track |-> 0, volume |-> 0]

\* the two builds of the firmware (INPUT_MODE_DIGITAL defined or not)
Builds == {"analog", "digital"}

\* observer of SpecPlay, about the last iteration:
\*   build         the build that runs, fixed for a behaviour
\*   msg, busy     the command it was fed and the level of the BUSY pin
\*   atLoop        the device as callback() left it, where loop() goes on:
\*                 isPlaying, lastPlayTime, whether a request is pending
\*                 and the loop's currentTime
\*   prevPlayTime  lastPlayTime before the iteration
\*   wasPlaying    isPlaying before the iteration
\*   simStart      the callback started a button playback
\*   lateStart     the input sampling started a button playback
\*   seenAtCheck   at the playback check, BUSY had been read LOW by an
\*                 earlier check since the playback in progress started
\*   busySeen      the same, at the end of the iteration
\*   lastReq       the play request accepted last (direct play or expiry)
\*   waiting       requests accepted since the last dispatch
\*   served        waiting at the dispatch of the iteration, 0 without one
InitPlayObs ==
    [build |-> "analog", msg |-> NoMsg, busy |-> TRUE,
     atLoop |-> [isPlaying |-> FALSE, lastPlayTime |-> 0, pending |-> FALSE,
                 currentTime |-> 0],
     prevPlayTime |-> 0, wasPlaying |-> FALSE,
     simStart |-> FALSE, lateStart |-> FALSE,
     seenAtCheck |-> FALSE, busySeen |-> FALSE,
     lastReq |-> NoRequest, waiting |-> 0, served |-> 0]

PlayObserve(o, d0, in, d1) ==
    LET fresh == [d0 EXCEPT !.pub = <<>>, !.df = <<>>, !.dbg = <<>>]
        cb == IF in.msg = NoMsg THEN fresh ELSE callback(fresh, in.msg)
        fired == Passed(d1, "timer_ended")
        finished == Passed(d1, "playback_finished")
        dispatched == Passed(d1, "playback_started")
        checked == d1.lastPlaybackCheck # d0.lastPlaybackCheck
        simStart == Events(cb) > 0
        lateStart == Events(d1) > Events(cb)
        seenAtCheck == IF simStart THEN FALSE ELSE o.busySeen
        seenAfter == IF checked /\ cb.isPlaying /\ ~in.busy THEN TRUE
                     ELSE seenAtCheck
        playAccepted == in.msg.topic = "doorbell/play/" /\ in.msg.track > 0
        waiting == o.waiting + (IF playAccepted THEN 1 ELSE 0)
                             + (IF fired THEN 1 ELSE 0)
    IN [build |-> o.build, msg |-> in.msg, busy |-> in.busy,
        atLoop |-> [isPlaying |-> cb.isPlaying, lastPlayTime |-> cb.lastPlayTime,
                    pending |-> cb.playRequest.pending, currentTime |-> cb.now],
        prevPlayTime |-> d0.lastPlayTime, wasPlaying |-> d0.isPlaying,
        simStart |-> simStart, lateStart |-> lateStart,
        seenAtCheck |-> seenAtCheck,
        busySeen |-> IF dispatched \/ lateStart \/ finished THEN FALSE ELSE seenAfter,
        lastReq |-> IF fired THEN [track |-> cb.timer.track, volume |-> cb.timer.volume]
                    ELSE IF playAccepted THEN [track |-> in.msg.track, volume |-> 100]
                    ELSE o.lastReq,
        waiting |-> IF dispatched THEN 0 ELSE waiting,
        served |-> IF dispatched THEN waiting ELSE 0]

InitPlay ==
    /\ dev = InitDev(PlayBootTime, PlayConfig)
    /\ \E build \in Builds : obs = [InitPlayObs EXCEPT !.build = build]
    /\ tally = InitTally
    /\ emg = InitEmgIdle
    /\ net = InitNet
    /\ iter = 0

PlayIteration ==
    /\ iter < MaxPlayIter
    /\ \E feed \in PlayFeeds :
       \E busy \in BusyLevels(dev, feed[1]), dt \in PlayIterationTimes,
          local \in (IF obs.build = "digital" THEN LocalValues(dev) ELSE {0}) :
         LET in == Inputs(feed[1], RawZero, feed[2], FALSE, feed[2] # RawZero,
                          busy, local, dt)
             d1 == loopBody(dev, in, obs.build)
         IN /\ dev' = d1
            /\ obs' = PlayObserve(obs, dev, in, d1)
    /\ iter' = iter + 1
    /\ UNCHANGED <<tally, emg, net>>

SpecPlay == InitPlay /\ [][PlayIteration]_vars

\* C15: after a playback starts, the playback check clears isPlaying and
\* resets the volume only when BUSY reads idle after it has read busy at
\* least once since that playback started; an idle reading that precedes
\* every busy reading does not end the playback
C15_FinishedOnlyAfterBusySeen ==
    Passed(dev, "playback_finished") => obs.seenAtCheck

\* a request is pending and the device is (not) playing where loop() comes
\* to the pending request in the step
PendingAtDispatch == obs'.atLoop.pending \/ Passed(dev', "timer_ended")

PlayingAtDispatch == obs'.atLoop.isPlaying /\ ~Passed(dev', "playback_finished")

CooldownElapsedAtDispatch ==
    USub(obs'.atLoop.currentTime, obs'.atLoop.lastPlayTime)
        >= dev.config.button_cooldown_ms

\* what a dispatch does: the request is no longer pending, isPlaying is
\* true, lastPlayTime and volumeResetTimer are the iteration's time
DispatchEffects ==
    /\ Passed(dev', "playback_started")
    /\ ~dev'.playRequest.pending
    /\ dev'.isPlaying
    /\ dev'.lastPlayTime = obs'.atLoop.currentTime
    /\ dev'.volumeResetTimer = obs'.atLoop.currentTime

\* C17 as stated: a pending play request is dispatched on every iteration at
\* which isPlaying is false or button_cooldown_ms has passed since
\* lastPlayTime
C17_DispatchedWhenIdleOrCooldownOver ==
    [][PendingAtDispatch /\ (~PlayingAtDispatch \/ CooldownElapsedAtDispatch)
         => DispatchEffects]_vars

\* C17 amended: a pending play request is dispatched on exactly the
\* iterations at which isPlaying is false, whatever time has passed since
\* lastPlayTime; while isPlaying is true it stays pending.  A dispatch
\* clears pending, sets isPlaying and sets lastPlayTime and volumeResetTimer
\* to the iteration's time
C17_DispatchedExactlyWhenIdle ==
    [][/\ Passed(dev', "playback_started")
            <=> (PendingAtDispatch /\ ~PlayingAtDispatch)
       /\ PendingAtDispatch /\ ~PlayingAtDispatch => DispatchEffects
       /\ PendingAtDispatch /\ PlayingAtDispatch => dev'.playRequest.pending]_vars

\* a request stayed pending through an iteration that began more than the
\* cooldown after the playback in progress started
C17_Witness ==
    /\ dev.playRequest.pending
    /\ dev.isPlaying
    /\ ~Passed(dev, "playback_started")
    /\ USub(obs.atLoop.currentTime, dev.lastPlayTime) >= dev.config.button_cooldown_ms
    /\ dev.lastPlayTime > 0

\* the DFPlayer was sent the volume and the track of the request r, in
\* that order
Served(d, r) ==
    \E i \in 1..(Len(d.df) - 1) :
        /\ d.df[i].op = "volume" /\ d.df[i].arg = percentToVolume(r.volume)
        /\ d.df[i + 1].op = "play" /\ d.df[i + 1].arg = r.track

\* C18: one play request at most is pending, the one accepted last: a
\* dispatch plays the track and volume of the request accepted last, also
\* when other requests were accepted since the previous dispatch
C18_LastRequestWins ==
    /\ dev.playRequest.pending =>
         /\ dev.playRequest.track = obs.lastReq.track
         /\ dev.playRequest.volume = obs.lastReq.volume
    /\ Passed(dev, "playback_started") =>
         /\ dev.playRequest.track = obs.lastReq.track
         /\ dev.playRequest.volume = obs.lastReq.volume
         /\ Served(dev, obs.lastReq)

\* a dispatch served the later of two requests accepted since the dispatch
\* before it
C18_Witness ==
    /\ Passed(dev, "playback_started")
    /\ obs.served >= 2
    /\ Served(dev, obs.lastReq)

\* C19: a button-triggered playback (simulated press, analog session or
\* digital input held) starts only while isPlaying is false and no less than button_cooldown_ms
\* after the recorded start of the previous playback
C19_ButtonPlaybackAfterCooldown ==
    /\ obs.simStart =>
         /\ ~obs.wasPlaying
         /\ USub(obs.atLoop.lastPlayTime, obs.prevPlayTime)
              >= dev.config.button_cooldown_ms
    /\ obs.lateStart =>
         /\ ~obs.atLoop.isPlaying \/ Passed(dev, "playback_finished")
         /\ ~Passed(dev, "playback_started")
         /\ USub(dev.lastPlayTime, obs.atLoop.lastPlayTime)
              >= dev.config.button_cooldown_ms

\* a button playback started after an earlier playback had started and ended
C19_Witness ==
    /\ obs.simStart \/ obs.lateStart
    /\ obs.prevPlayTime > 0
    /\ dev.isPlaying
    /\ USub(dev.lastPlayTime, obs.prevPlayTime) >= dev.config.button_cooldown_ms

\* ------------------------------------------------------------------------
\* Specification SpecStuck: the timer/analog firmware with a BUSY pin that
\* never reads idle during a playback.  One playback is started by a
\* command; every other iteration is fed nothing (no command, both lines
\* idle).  loop() is called again whenever it returns, so the quiet
\* iterations are taken under weak fairness.
\* ------------------------------------------------------------------------

\* loop() iterations explored by SpecStuck
MaxStuckIter == 8

\* the volume_reset_ms stored in the EEPROM of SpecStuck
ShortReset == 1000

StuckConfig == [DefaultConfig EXCEPT !.volume_reset_ms = ShortReset]

\* the commands that start the playback of SpecStuck
StartMsgs == {PlayMsg(3), [NoMsg EXCEPT !.topic = "doorbell/simulate/door"]}

InitStuck ==
    /\ \E t0 \in BootTimes : dev = InitDev(t0, StuckConfig)
    /\ obs = InitPlayObs
    /\ tally = InitTally
    /\ emg = InitEmgIdle
    /\ net = InitNet
    /\ iter = 0

\* BUSY reads LOW whenever a playback is in progress
StuckBusy(d) == ~d.isPlaying

\* the iteration that is fed the command starting the playback
StartIteration ==
    /\ iter < MaxStuckIter
    /\ dev.lastPlayTime = 0
    /\ \E m \in StartMsgs, dt \in PlayIterationTimes :
         dev' = loopBody(dev, Inputs(m, RawZero, RawZero, FALSE, FALSE,
                                     StuckBusy(dev), 0, dt), "analog")
    /\ iter' = iter + 1
    /\ UNCHANGED <<obs, tally, emg, net>>

\* an iteration that is fed nothing
QuietIteration ==
    /\ iter < MaxStuckIter
    /\ \E dt \in PlayIterationTimes :
         dev' = loopBody(dev, Inputs(NoMsg, RawZero, RawZero, FALSE, FALSE,
                                     StuckBusy(dev), 0, dt), "analog")
    /\ iter' = iter + 1
    /\ UNCHANGED <<obs, tally, emg, net>>

NextStuck == StartIteration \/ QuietIteration

SpecStuck == InitStuck /\ [][NextStuck]_vars /\ WF_vars(QuietIteration)

\* volume_reset_ms have passed since the playback in progress started, and
\* loop() has iterations left to run
ResetOverdue ==
    /\ dev.isPlaying
    /\ USub(dev.now, dev.volumeResetTimer) >= dev.config.volume_reset_ms
    /\ iter < MaxStuckIter

MaxPercent == 100

InitConvert ==
    /\ \E p \in 0..MaxPercent : obs = [percent |-> p, native |-> -1]
    /\ dev = InitDev(0, DefaultConfig)
    /\ emg = InitEmgIdle
    /\ tally = InitTally
    /\ net = InitNet
    /\ iter = 0

Convert ==
    /\ obs.native = -1
    /\ obs' = [obs EXCEPT !.native = percentToVolume(obs.percent)]
    /\ iter' = iter + 1
    /\ UNCHANGED <<dev, emg, tally, net>>

SpecConvert == InitConvert /\ [][Convert]_vars

\* C21 as stated: for every percentage p in 0..100 percentToVolume(p) is
\* p * 30 / 100 rounded to the nearest integer (halves upward)
C21_VolumeIsRoundedQuotient ==
    obs.native # -1 /\ obs.percent <= 100 =>
        obs.native = (obs.percent * 30 + 50) \div 100

\* C21 amended: for every percentage p in 0..100 percentToVolume(p) is
\* p * 30 / 100 rounded down, so 0 -> 0, 50 -> 15, 100 -> 30 and a result
\* within 0..30
C21_VolumeIsTruncatedQuotient ==
    obs.native # -1 /\ obs.percent <= 100 =>
        /\ obs.native = (obs.percent * 30) \div 100
        /\ obs.native \in 0..30
        /\ obs.percent = 0 => obs.native = 0
        /\ obs.percent = 50 => obs.native = 15
        /\ obs.percent = 100 => obs.native = 30

\* 5 percent, where rounding and truncation differ, was converted to 1
C21_Witness ==
    obs.percent = 5 /\ obs.native = 1

\* ------------------------------------------------------------------------
\* Specification SpecCommands: commands, configuration and restarts.  A
\* behaviour follows one firmware, chosen at Init:
\*   obs.variant   "timer": src/unnamed/part_001, started from an EEPROM
\*                 content of StoredEeproms with the buttons held or not;
\*                 "emergency": src/unnamed/part_002
\*   obs.msg       the command the last iteration was fed
\*   obs.pre       Kept() of the device before callback()
\*   obs.cb        Kept() of the device as callback() left it
\*   obs.pub       what callback() published
\*   obs.marks     the points callback() passed, in order
\*   obs.booted    the last step was a startup (Init is one)
\*   obs.bootFrom  the EEPROM content that startup found
\*   obs.held      both buttons read HIGH at that startup
\* ------------------------------------------------------------------------

\* loop() iterations explored by SpecCommands
MaxCommandIter == 4

\* millis() at the first iteration of SpecCommands: the default cooldown has
\* run out
CommandBootTime == 20000

\* a volume percentage above 100 that fits uint8_t
LoudPercent == 200

\* a configuration as earlier set commands left it in the EEPROM
StoredConfig == [DefaultConfig EXCEPT !.door_track = 3, !.door_volume = 80]

\* EEPROM contents a startup can find: never written (the validity marker is
\* absent, with or without other bytes in place) or written by saveConfig()
StoredEeproms ==
    {[valid |-> FALSE, config |-> ZeroConfig],
     [valid |-> FALSE, config |-> StoredConfig],
     [valid |-> TRUE, config |-> StoredConfig]}

Msg(topic) == [NoMsg EXCEPT !.topic = topic]

JsonMsg(topic, keys) == [NoMsg EXCEPT !.topic = topic, !.json = TRUE, !.keys = keys]

\* the topics callback() knows: the two special commands and the two lists
KnownCommands ==
    {"doorbell/system/reboot", "doorbell/play/", "doorbell/simulate/door",
     "doorbell/simulate/downstairs", "doorbell/get/config", "doorbell/get/all",
     "doorbell/timer/stop"} \cup JsonTopics

\* the commands delivered to the timer/analog firmware in SpecCommands; all
\* topics are within the subscriptions of reconnect()
CommandMsgs ==
    {NoMsg,
     [JsonMsg("doorbell/set/button/door", {"track", "volume"})
        EXCEPT !.track = 3, !.volume = 80],
     [JsonMsg("doorbell/set/button/door", {"volume"}) EXCEPT !.volume = LoudPercent],
     Msg("doorbell/set/button/door"),
     [JsonMsg("doorbell/set/button/downstairs", {"track"}) EXCEPT !.track = 7],
     [JsonMsg("doorbell/set/config", {"debug_enabled"}) EXCEPT !.debug = TRUE],
     [JsonMsg("doorbell/set/config", {"wifi_ssid"}) EXCEPT !.ssid = "home"],
     [JsonMsg("doorbell/set/config", {"wifi_ssid"}) EXCEPT !.ssid = NullPtr],
     Msg("doorbell/set/config"),
     [JsonMsg("doorbell/timer/set", {"seconds", "track", "volume"})
        EXCEPT !.seconds = 1, !.track = 4, !.volume = LoudPercent],
     Msg("doorbell/timer/set"),
     Msg("doorbell/simulate/door"),
     Msg("doorbell/get/config"),
     Msg("doorbell/get/all"),
     Msg("doorbell/get/status"),
     Msg("doorbell/set/volume"),
     [Msg("doorbell/system/reboot") EXCEPT !.text = "REBOOT"],
     [Msg("doorbell/system/reboot")
        EXCEPT !.text = "REBOOT",
               !.queued = <<[JsonMsg("doorbell/set/button/door", {"volume"})
                               EXCEPT !.volume = 30]>>]}

\* the commands delivered to the emergency/panic firmware in SpecCommands
CommandMsgsE ==
    {NoMsgE, MsgE("doorbell/get/config", ""), MsgE("doorbell/get/status", ""),
     [MsgE("doorbell/set/button/door", "") EXCEPT !.json = TRUE,
                                                   !.keys = {"volume"}, !.volume = 80]}

\* the button inputs matter at a restart only
HeldReads(d, m) ==
    IF "restart" \in {callback(d, m).dbg[i] : i \in 1..Len(callback(d, m).dbg)}
    THEN BOOLEAN ELSE {FALSE}

InitCommands ==
    /\ \/ \E rom \in StoredEeproms, held \in BOOLEAN :
            /\ dev = [Boot([InitDev(0, ZeroConfig) EXCEPT !.eeprom = rom], held)
                        EXCEPT !.now = CommandBootTime, !.boots = 0]
            /\ obs = [variant |-> "timer", msg |-> NoMsg, pre |-> Kept(dev),
                      cb |-> Kept(dev), pub |-> <<>>, marks |-> <<>>,
                      booted |-> TRUE,
                      bootFrom |-> rom, held |-> held]
            /\ emg = InitEmgIdle
       \/ /\ dev = InitDev(0, DefaultConfig)
          /\ obs = [variant |-> "emergency", msg |-> NoMsg, pre |-> Kept(dev),
                    cb |-> Kept(dev), pub |-> <<>>, marks |-> <<>>,
                    booted |-> FALSE,
                    bootFrom |-> dev.eeprom, held |-> FALSE]
          /\ emg = InitEmg(1000, DefaultConfigE)
    /\ tally = InitTally
    /\ net = InitNet
    /\ iter = 0

CommandIteration ==
    /\ iter < MaxCommandIter
    /\ obs.variant = "timer"
    /\ \E m \in CommandMsgs :
         \E held \in HeldReads(dev, m), busy \in BusyReads(dev) :
           LET in == Inputs(m, RawZero, RawZero, held, held, busy, 0, 1000)
               clean == [dev EXCEPT !.pub = <<>>, !.df = <<>>, !.dbg = <<>>]
               cb == IF m = NoMsg THEN clean ELSE callback(clean, m)
           IN /\ dev' = loopBody(dev, in, "analog")
              /\ obs' = [obs EXCEPT !.msg = m, !.pre = Kept(dev), !.cb = Kept(cb),
                                    !.pub = cb.pub, !.marks = cb.dbg,
                                    !.booted = dev'.boots # dev.boots,
                                    !.bootFrom = cb.eeprom,
                                    !.held = held]
    /\ iter' = iter + 1
    /\ UNCHANGED <<tally, emg, net>>

CommandIterationE ==
    /\ iter < MaxCommandIter
    /\ obs.variant = "emergency"
    /\ \E m \in CommandMsgsE :
         LET clean == [emg EXCEPT !.pub = <<>>, !.df = <<>>, !.dbg = <<>>]
             cb == IF m = NoMsgE THEN clean ELSE callbackE(clean, m)
         IN /\ emg' = loopE(emg, [msg |-> m, pin0 |-> FALSE, pin1 |-> FALSE,
                                  dt |-> 1000])
            /\ obs' = [obs EXCEPT !.msg = [NoMsg EXCEPT !.topic = m.topic],
                                  !.pub = cb.pub]
    /\ iter' = iter + 1
    /\ UNCHANGED <<dev, tally, net>>

NextCommands == CommandIteration \/ CommandIterationE

SpecCommands == InitCommands /\ [][NextCommands]_vars

\* the topics of what callback() published in the last iteration
PubTopics == {obs.pub[i].topic : i \in 1..Len(obs.pub)}

\* C22: in the timer/analog firmware every volume passed to the audio
\* device is within 0..30, whatever volume values the configuration,
\* timer-set and direct-play requests carried
C22_DeviceVolumeWithinRange ==
    obs.variant = "timer" =>
        \A i \in 1..Len(dev.df) :
            dev.df[i].op = "volume" => dev.df[i].arg \in 0..30

\* C23: in the timer/analog firmware, after startup and after every command
\* handler has returned, the validity marker is set and the persisted
\* Configuration equals the one in memory
C23_PersistedEqualsInMemory ==
    obs.variant = "timer" =>
        /\ dev.eeprom = [valid |-> TRUE, config |-> dev.config]
        /\ obs.cb.eeprom = [valid |-> TRUE, config |-> obs.cb.config]

\* a partial set-channel-config changed the configuration, and it is stored
C23_Witness ==
    /\ obs.variant = "timer"
    /\ obs.msg.topic = "doorbell/set/button/door"
    /\ obs.msg.keys = {"volume"}
    /\ obs.cb.config # obs.pre.config
    /\ obs.cb.eeprom.config = obs.cb.config

\* C24: a startup that finds the validity marker, with the buttons not both
\* held, restores the persisted configuration unchanged; a startup that
\* finds no marker, or has both buttons held, ends with the compiled-in
\* defaults in memory and persisted with the marker set
C24_StartupRestoresOrDefaults ==
    obs.variant = "timer" /\ obs.booted =>
        IF obs.bootFrom.valid /\ ~obs.held
        THEN dev.config = obs.bootFrom.config /\ dev.eeprom = obs.bootFrom
        ELSE dev.config = DefaultConfig
             /\ dev.eeprom = [valid |-> TRUE, config |-> DefaultConfig]

\* a restart with both buttons held replaced a stored configuration other
\* than the defaults
C24_Witness ==
    /\ obs.variant = "timer"
    /\ obs.booted /\ obs.held /\ iter > 0
    /\ obs.bootFrom.valid
    /\ obs.bootFrom.config # DefaultConfig
    /\ dev.config = DefaultConfig

\* a restart restored a configuration that a set command had stored
C24_WitnessRestored ==
    /\ obs.variant = "timer"
    /\ obs.booted /\ ~obs.held /\ iter > 0
    /\ obs.bootFrom.config.door_volume = LoudPercent
    /\ dev.config = obs.bootFrom.config

\* C25: a request whose topic is no known command makes callback() publish
\* on doorbell/error and leaves configuration, EEPROM, timer, pending
\* request and playback state as they were
C25_UnknownCommandReportedNoChange ==
    obs.variant = "timer" /\ obs.msg.topic # ""
    /\ obs.msg.topic \notin KnownCommands =>
        /\ "doorbell/error" \in PubTopics
        /\ obs.cb = obs.pre

\* an unknown command arrived while a timer was running
C25_Witness ==
    /\ obs.variant = "timer"
    /\ obs.msg.topic = "doorbell/set/volume"
    /\ obs.pre.timer.active
    /\ "doorbell/error" \in PubTopics

\* the last iteration was fed a structured command whose payload is no JSON
ParseFailed ==
    obs.variant = "timer" /\ obs.msg.topic \in JsonTopics /\ ~obs.msg.json

\* C26: a structured command whose payload fails to parse is reported with
\* a notification and leaves configuration, EEPROM, timer and playback state
\* as they were
C26_ParseFailureReportedNoChange ==
    ParseFailed => obs.pub # <<>> /\ obs.cb = obs.pre

\* C27: handling doorbell/get/config publishes the configuration: something
\* other than debug text goes out
C27_GetConfigPublishesConfig ==
    obs.msg.topic = "doorbell/get/config" =>
        PubTopics \ {"doorbell/debug"} # {}

\* C28: in the timer/analog firmware, connected, handling doorbell/get/status
\* publishes on doorbell/status and nothing on doorbell/error
C28_GetStatusPublishesStatus ==
    obs.variant = "timer" /\ obs.msg.topic = "doorbell/get/status" =>
        /\ "doorbell/status" \in PubTopics
        /\ "doorbell/error" \notin PubTopics

\* ------------------------------------------------------------------------
\* Session start and session end of the analog build, on SpecADC
\* ------------------------------------------------------------------------

\* the press events the last iteration published
PressEvents == {i \in 1..Len(dev.pub) : dev.pub[i].topic = "doorbell/event"}

\* C29: a session becomes active only on a sample with a voltage at or
\* above the threshold, taken while no session is active and isPlaying is
\* false; no session starts while playback is in progress.  (The sample that
\* starts a session cannot end it, so isPlaying after the iteration is
\* isPlaying at the sample.)
C29_SessionStartsOnlyHighIdleNotPlaying ==
    /\ dev.currentSession.isActive /\ ~obs.wasActive => Passed(dev, "session_start")
    /\ Passed(dev, "session_start") =>
         /\ obs.sampled
         /\ IsHigh(obs.v1, obs.v2)
         /\ ~obs.wasActive
         /\ ~dev.isPlaying
         /\ dev.currentSession.isActive

\* a session started after an earlier playback had finished
C29_Witness ==
    /\ Passed(dev, "session_start")
    /\ dev.lastPlayTime > 0
    /\ IsHigh(obs.v1, obs.v2)

\* a sample at or above the threshold, taken during playback with no session
\* active, started none
C29_WitnessBlocked ==
    /\ obs.sampled /\ IsHigh(obs.v1, obs.v2)
    /\ ~obs.wasActive /\ dev.isPlaying
    /\ ~Passed(dev, "playback_started")
    /\ obs.ended = NoSession
    /\ ~dev.currentSession.isActive

\* C30: a session emits the press event of its attributed channel only if
\* endTime - startTime >= 200 ms; a session that ends sooner emits no event
\* and starts no playback; a session emits at most one press event, and
\* without a session end the analog build emits none
C30_EventOnlyAfterMinimumDuration ==
    IF obs.sampled /\ SessionEnded(dev)
    THEN /\ obs.ended.emitted \/ PressEvents # {} =>
              /\ Duration(obs.ended) >= 200
              /\ obs.ended.button = obs.ended.attributed
              /\ \A i \in PressEvents : dev.pub[i].args[1] = obs.ended.attributed
         /\ Duration(obs.ended) < 200 =>
              ~obs.ended.emitted /\ ~obs.ended.played /\ PressEvents = {}
         /\ Cardinality(PressEvents) <= 1
    ELSE PressEvents = {}

\* a session of 200 ms or more ended and published its one press event
C30_Witness ==
    /\ obs.sampled /\ SessionEnded(dev)
    /\ Duration(obs.ended) >= 200
    /\ obs.ended.emitted /\ obs.ended.played
    /\ Cardinality(PressEvents) = 1

\* a session ended before 200 ms, without event or playback
C30_WitnessShort ==
    /\ obs.sampled /\ SessionEnded(dev)
    /\ Duration(obs.ended) < 200
    /\ ~obs.ended.played /\ PressEvents = {}

\* C31: a session that starts is attributed to the door (buttonDetected 1)
\* whenever voltage2 is at or above the threshold, both lines high included,
\* and to downstairs (buttonDetected 0) exactly when voltage1 is at or above
\* the threshold and voltage2 is below it
C31_DoorLineHasPriority ==
    Passed(dev, "session_start") =>
        /\ obs.v2 >= ADC_THRESHOLD => dev.currentSession.buttonDetected = 1
        /\ dev.currentSession.buttonDetected = 0
             <=> (obs.v1 >= ADC_THRESHOLD /\ obs.v2 < ADC_THRESHOLD)
        /\ obs.attributed = dev.currentSession.buttonDetected

\* a session started with both lines at or above the threshold and went to
\* the door
C31_Witness ==
    /\ Passed(dev, "session_start")
    /\ obs.v1 >= ADC_THRESHOLD /\ obs.v2 >= ADC_THRESHOLD
    /\ dev.currentSession.buttonDetected = 1

\* the last iteration handled a set-channel-config whose payload parsed
ChannelConfigSet ==
    /\ obs.variant = "timer"
    /\ obs.msg.topic \in {"doorbell/set/button/downstairs", "doorbell/set/button/door"}
    /\ obs.msg.json

\* C32: set-channel-config for one channel changes only that channel's track
\* and volume, and of these only the fields present in the payload; every
\* other field of the configuration is as before
C32_ChannelConfigFrame ==
    ChannelConfigSet =>
        LET door == obs.msg.topic = "doorbell/set/button/door"
            trackField == IF door THEN "door_track" ELSE "downstairs_track"
            volField == IF door THEN "door_volume" ELSE "downstairs_volume"
        IN /\ \A f \in DOMAIN obs.pre.config \ {trackField, volField} :
                obs.cb.config[f] = obs.pre.config[f]
           /\ "track" \notin obs.msg.keys =>
                obs.cb.config[trackField] = obs.pre.config[trackField]
           /\ "volume" \notin obs.msg.keys =>
                obs.cb.config[volField] = obs.pre.config[volField]
           /\ DOMAIN obs.cb.config = DOMAIN obs.pre.config

\* a payload with the track only changed the downstairs track and kept a
\* downstairs volume that is not the zero of an absent field
C32_Witness ==
    /\ ChannelConfigSet
    /\ obs.msg.keys = {"track"}
    /\ obs.cb.config.downstairs_track # obs.pre.config.downstairs_track
    /\ obs.cb.config.downstairs_volume = obs.pre.config.downstairs_volume
    /\ obs.pre.config.downstairs_volume > 0

\* how often mark what occurs among the first n of the points callback()
\* passed in the last iteration
MarksBefore(what, n) == Cardinality({i \in 1..n : obs.marks[i] = what})

\* the points of loop() behind mqtt.loop() that the last iteration passed
StageMarks == {"timer_ended", "playback_finished", "playback_started", "sample"}

\* C33: commands are handled only at the mqtt.loop() of loop(): callback()
\* is entered only before the timer check, the playback check, the dispatch
\* of the pending request and the input sampling of the iteration, and only
\* when every earlier entry has returned
C33_HandlersOnlyAtDispatchPoint ==
    obs.variant = "timer" =>
        /\ \A j \in 1..Len(obs.marks) :
             obs.marks[j] = "callback" =>
                 MarksBefore("callback", j - 1) = MarksBefore("callback_return", j - 1)
        /\ \A i, j \in 1..Len(dev.dbg) :
             dev.dbg[i] \in StageMarks /\ dev.dbg[j] = "callback" => j < i

\* C34: between samples an active session is attributed to channel 0 or 1,
\* and an inactive one is empty: buttonDetected -1, no readings, maxVoltage 0
C34_SessionRecordConsistent ==
    IF dev.currentSession.isActive
    THEN dev.currentSession.buttonDetected \in {0, 1}
    ELSE /\ dev.currentSession.buttonDetected = -1
         /\ dev.currentSession.numReadings = 0
         /\ dev.currentSession.maxVoltage = 0

\* a session that had readings and an attribution has ended and is empty
C34_Witness ==
    /\ obs.sampled /\ SessionEnded(dev)
    /\ obs.ended.attributed \in {0, 1}
    /\ ~dev.currentSession.isActive
    /\ dev.currentSession.buttonDetected = -1

\* ------------------------------------------------------------------------
\* Pending requests and held buttons of the emergency/panic firmware, on
\* SpecPanic
\* ------------------------------------------------------------------------

\* the last iteration sent the pending request's track to the audio device
DispatchedE ==
    \E i \in 1..Len(emg.df) : emg.df[i].op = "play" /\ emg.df[i].by = "pending"

\* C35: a direct-play request that the iteration examining it does not
\* dispatch (the device is playing and the cooldown has not elapsed) is
\* still pending after that iteration
C35_UndispatchedRequestStaysPending ==
    obs.topic = "doorbell/play/" /\ ~DispatchedE => emg.playRequest.pending

\* C36: a door button held from one poll to the next without a release is
\* passed to the press handling at most once: after an iteration whose poll
\* counted the hold as a press, the next poll of the same hold counts none
C36_OneTriggerPerHold ==
    [][(/\ obs.topic = "" /\ obs'.topic = ""
        /\ "press_door" \in MarksE(emg)
        /\ emg.buttonDoorWasPressed /\ emg'.buttonDoorWasPressed)
       => "press_door" \notin MarksE(emg')]_vars

\* ------------------------------------------------------------------------
\* Starting a track in the timer/analog firmware, on SpecPlay
\* ------------------------------------------------------------------------

\* the play commands the last iteration sent to the audio device
PlayCalls == {i \in 1..Len(dev.df) : dev.df[i].op = "play"}

\* C37: a play command goes to the audio device only while isPlaying is
\* false, whether it comes from the pending request or from a press
C37_PlayOnlyWhenNotPlaying ==
    \A i \in PlayCalls : ~dev.df[i].playing

\* a track was started, with isPlaying false, after an earlier playback of
\* this run
C37_Witness ==
    /\ PlayCalls # {}
    /\ \A i \in PlayCalls : ~dev.df[i].playing
    /\ obs.prevPlayTime > 0

\* C38: a simulated press handled while isPlaying is false and no playback
\* has started since boot starts the playback of its channel, however soon
\* after boot it arrives
C38_FirstPressAfterBootPlays ==
    /\ obs.msg.topic = "doorbell/simulate/door"
    /\ ~obs.wasPlaying
    /\ obs.prevPlayTime = 0
    => obs.simStart /\ obs.atLoop.isPlaying

\* ------------------------------------------------------------------------
\* Specification SpecBuffer: the analog build sampled over the first
\* MaxBufferMs milliseconds after startup, at the sampling cadence, with up
\* to MaxSlow slow iterations in between; the cooldown of the defaults keeps
\* the audio device idle all the while.
\*   obs.slow     the slow iterations so far
\*   obs.sessions the sessions that have ended so far; the device is
\*                followed through its first MaxSessions sessions
\*   obs.sampled  the last iteration took an ADC sample
\*   obs.ended    the session that sample ended, if it ended one
\* ------------------------------------------------------------------------

\* the time after startup up to which SpecBuffer starts iterations
MaxBufferMs == 230

\* the slow iterations of one behaviour of SpecBuffer
MaxSlow == 1

\* the sessions of one behaviour of SpecBuffer
MaxSessions == 2

\* duration of a slow loop() iteration
SlowIteration == 100

\* millis() when setup() returns in SpecBuffer
BufferBootTime == 1000

\* the two lines as sampled together: idle, or the door line high
BufferLines == {<<RawZero, RawZero>>, <<RawZero, RawHigh32>>}

InitBuffer ==
    /\ dev = InitDev(BufferBootTime, DefaultConfig)
    /\ obs = [sampled |-> FALSE, ended |-> NoSession, slow |-> 0, sessions |-> 0]
    /\ tally = InitTally
    /\ emg = InitEmgIdle
    /\ net = InitNet
    /\ iter = 0

BufferIteration ==
    /\ dev.now - BufferBootTime < MaxBufferMs
    /\ obs.sessions < MaxSessions
    /\ \E line \in BufferLines,
          dt \in {ADC_SAMPLE_INTERVAL}
                 \cup (IF obs.slow < MaxSlow THEN {SlowIteration} ELSE {}) :
         LET in == Inputs(NoMsg, line[1], line[2], FALSE, FALSE, TRUE, 0, dt)
             d1 == loopBody(dev, in, "analog")
         IN /\ dev' = d1
            /\ obs' = [sampled |-> Passed(d1, "sample"),
                       ended |-> IF SessionEnded(d1)
                                 THEN EndedSession(
                                          [attributed |-> dev.currentSession.buttonDetected],
                                          dev, d1)
                                 ELSE NoSession,
                       slow |-> obs.slow + (IF dt = SlowIteration THEN 1 ELSE 0),
                       sessions |-> obs.sessions + (IF SessionEnded(d1) THEN 1 ELSE 0)]
    /\ UNCHANGED <<tally, emg, net, iter>>

SpecBuffer == InitBuffer /\ [][BufferIteration]_vars

\* the readings a session can take with samples ADC_SAMPLE_INTERVAL apart:
\* those before MIN_SESSION_DURATION + ADC_DROPOUT_TOLERANCE, and one more
MaxReadings ==
    (MIN_SESSION_DURATION + ADC_DROPOUT_TOLERANCE - 1) \div ADC_SAMPLE_INTERVAL + 2

\* C39 as stated: numReadings stays below MAX_SESSION_SAMPLES, the
\* buffer-full branch is never taken, and every session ends within
\* MIN_SESSION_DURATION + ADC_DROPOUT_TOLERANCE + ADC_SAMPLE_INTERVAL of its
\* start
C39_SessionEndsWithin220ms ==
    /\ dev.currentSession.numReadings < MAX_SESSION_SAMPLES
    /\ ~Passed(dev, "buffer_full")
    /\ obs.sampled /\ SessionEnded(dev) =>
         Duration(obs.ended) <= MIN_SESSION_DURATION + ADC_DROPOUT_TOLERANCE
                                  + ADC_SAMPLE_INTERVAL

\* C39 amended: a session stays active only past samples taken less than
\* MIN_SESSION_DURATION + ADC_DROPOUT_TOLERANCE after its start, so with
\* samples at least ADC_SAMPLE_INTERVAL apart it holds at most MaxReadings
\* readings, which is below MAX_SESSION_SAMPLES: the buffer-full branch is
\* never taken
C39_ReadingsBounded ==
    /\ MaxReadings < MAX_SESSION_SAMPLES
    /\ dev.currentSession.numReadings < MaxReadings
    /\ ~Passed(dev, "buffer_full")
    /\ dev.currentSession.isActive =>
         dev.lastAdcRead - dev.currentSession.startTime
             < MIN_SESSION_DURATION + ADC_DROPOUT_TOLERANCE

\* a session is active after the last tolerated sample and holds every
\* reading but the one that will end it
C39_Witness ==
    /\ dev.currentSession.isActive
    /\ dev.currentSession.numReadings = MaxReadings - 1
    /\ dev.lastAdcRead - dev.currentSession.startTime
         = MIN_SESSION_DURATION + ADC_DROPOUT_TOLERANCE - ADC_SAMPLE_INTERVAL

\* ------------------------------------------------------------------------
\* Specification SpecOffline: the timer/analog firmware with the broker
\* reachable or not, loop() split at reconnect()
\*   net.pc        "loop": at the top of loop(); "reconnect": inside the
\*                 while loop of reconnect()
\*   net.brokerUp  whether mqtt.connect() can succeed (fixed for a behaviour)
\*   net.connected mqtt.connected()
\*   net.wdtFed    millis() of the last esp_task_wdt_reset()
\*   net.sampled   the last step ran the input sampling of loop()
\* ------------------------------------------------------------------------

\* restarts counted in dev.boots by SpecOffline
MaxBoots == 2

\* loop() iterations with the connection up explored by SpecOffline
MaxOfflineIter == 4

OfflineLines == {<<RawZero, RawZero>>, <<RawZero, RawHigh32>>, <<RawHigh32, RawZero>>}

InitOffline ==
    /\ \E t0 \in BootTimes : dev = InitDev(t0, DefaultConfig)
    /\ obs = InitObs
    /\ tally = InitTally
    /\ emg = InitEmgIdle
    /\ \E up \in BOOLEAN :
         net = [pc |-> "loop", brokerUp |-> up, connected |-> FALSE,
                wdtFed |-> dev.now, sampled |-> FALSE]
    /\ iter = 0

\* loop(): esp_task_wdt_reset(); if (!mqtt.connected()) reconnect();
EnterReconnect ==
    /\ net.pc = "loop" /\ ~net.connected
    /\ net' = [net EXCEPT !.pc = "reconnect", !.wdtFed = dev.now, !.sampled = FALSE]
    /\ UNCHANGED <<dev, obs, tally, emg, iter>>

\* reconnect(): one pass of while (!mqtt.connected()), before the watchdog
\* expires: the connection is made, or delay(5000)
ReconnectAttempt ==
    /\ net.pc = "reconnect"
    /\ dev.now - net.wdtFed < WDT_TIMEOUT
    /\ IF net.brokerUp
       THEN /\ net' = [net EXCEPT !.pc = "loop", !.connected = TRUE]
            /\ dev' = Publish(dev, "doorbell/status", "online", <<>>)
       ELSE /\ net' = net
            /\ dev' = [dev EXCEPT !.now = @ + RECONNECT_DELAY]
    /\ UNCHANGED <<obs, tally, emg, iter>>

\* the task watchdog armed in setup() restarts the device; boots stops
\* counting at MaxBoots
WatchdogReset ==
    /\ net.pc = "reconnect"
    /\ dev.now - net.wdtFed >= WDT_TIMEOUT
    /\ dev' = [Boot(dev, FALSE) EXCEPT !.boots = IF dev.boots < MaxBoots
                                          THEN dev.boots + 1 ELSE MaxBoots]
    /\ net' = [net EXCEPT !.pc = "loop", !.connected = FALSE, !.wdtFed = 0,
                          !.sampled = FALSE]
    /\ UNCHANGED <<obs, tally, emg, iter>>

\* loop() with the connection up: the watchdog is fed and the rest of the
\* iteration runs, input sampling included
ConnectedIteration ==
    /\ net.pc = "loop" /\ net.connected
    /\ iter < MaxOfflineIter
    /\ \E line \in OfflineLines, busy \in BusyReads(dev), dt \in IterationTimes :
         LET in == Inputs(NoMsg, line[1], line[2], FALSE, FALSE, busy, 0, dt)
             d1 == loopBody(dev, in, "analog")
         IN /\ dev' = d1
            /\ obs' = Observe(obs, dev, d1, in)
    /\ net' = [net EXCEPT !.wdtFed = dev.now, !.sampled = TRUE]
    /\ iter' = iter + 1
    /\ UNCHANGED <<tally, emg>>

NextOffline == EnterReconnect \/ ReconnectAttempt \/ WatchdogReset \/ ConnectedIteration

\* the steps inside and around reconnect()
Reconnecting == EnterReconnect \/ ReconnectAttempt \/ WatchdogReset

\* the processor keeps executing: a step of reconnect() that can be taken is
\* taken (ConnectedIteration is never enabled while the broker is unreachable)
SpecOffline == InitOffline /\ [][NextOffline]_vars /\ WF_vars(Reconnecting)

\* C9: if the broker is never reachable, the loop still reaches input
\* sampling
C9_OfflineLoopReachesSampling == ~net.brokerUp ~> net.sampled

\* ------------------------------------------------------------------------
\* Timer duration arithmetic (SpecTimer)
\* ------------------------------------------------------------------------

\* C40 as stated: whenever a doorbell/timer/set was accepted (its status is
\* 'started'), the armed timer's durationMs is the message's seconds times
\* 1000 with no wrap-around: durationMs is a multiple of 1000 and dividing
\* it by 1000 gives back seconds
C40_DurationIsSecondsTimes1000 ==
    obs.msg.topic = "doorbell/timer/set" /\ TimerStatus(dev) = "started" =>
        /\ obs.timer.active
        /\ obs.timer.durationMs % 1000 = 0
        /\ obs.timer.durationMs \div 1000 = obs.msg.seconds

====
